---- MODULE Spec2Model ----
(***************************************************************************)
(* A model of the RoboEyes animation engine in its two implementations:    *)
(*   src/roboeyes/eyes.py  (impl = "eyes",       operators E_...)          *)
(*   src/roboeyes_2.py     (impl = "roboeyes_2", operators R2_...)         *)
(*                                                                         *)
(* Numbers.  The program computes with floats.  The model computes with    *)
(* fixed-point integers: one pixel, and an openness or modifier of 1.0,    *)
(* are Scale units; a float operation that does not land on a unit is      *)
(* rounded to the nearest unit, ties to even, as IEEE-754 rounds to the    *)
(* nearest float.  Wall-clock time (time.time()) is an integer number of   *)
(* clock ticks, TicksPerSec ticks to the second.                           *)
(***************************************************************************)
EXTENDS Integers, Sequences, FiniteSets, TLC

VARIABLES
    impl,    \* which implementation this behaviour runs
    eyes,    \* the RoboEyes instance: a record of its attributes
    clock,   \* time.time(), in ticks
    op,      \* the last operation performed, with its inputs and timestamps
    pre,     \* the RoboEyes instance as it was before the last operation
    anchor,  \* the RoboEyes instance as the latest caller operation left it
    ncalls,  \* number of caller operations (other than update()) so far
    sink     \* the display sink: a record of its attributes and of the calls
             \* it has made on the hardware driver

vars == <<impl, eyes, clock, op, pre, anchor, ncalls, sink>>

---------------------------------------------------------------------------
(* Resolution of the model *)

Scale == 10 * 100         \* fixed-point units per 1.0
TicksPerSec == 4 * 5      \* clock ticks per second (one tick is 50 ms)
Epoch == TicksPerSec      \* the clock when the engine is constructed

(* Bounds of the model *)

MaxTime == 32             \* the clock never passes Epoch + MaxTime
MaxCalls == 2             \* caller operations per behaviour
CallWindow == 2           \* caller operations happen before Epoch + CallWindow
MaxRender == 2            \* ticks one update() may spend after its pacing point
MaxJitter == 1            \* ticks time.sleep() may oversleep
MaxTwin == 8           \* ticks over which two runs are compared
CloseTicks == 10       \* updates after which a closed eye is looked for
RestoreTicks == 20     \* updates after which the default heights are looked for
MaxSinkCalls == 4      \* driver calls made by one sink
MaxSettle == 60           \* the clock's bound where a blend is run to its end

---------------------------------------------------------------------------
(* Arithmetic *)

Abs(n) == IF n < 0 THEN -n ELSE n
Max(a, b) == IF a >= b THEN a ELSE b
Min(a, b) == IF a <= b THEN a ELSE b

\* n / d rounded to the nearest integer, ties to even (d > 0)
RoundDiv(n, d) ==
    LET q == n \div d
        r == n % d
    IN  IF 2 * r < d THEN q
        ELSE IF 2 * r > d THEN q + 1
        ELSE IF q % 2 = 0 THEN q ELSE q + 1

\* 1000 * sin(k * pi / 60) for k = 0..30
SinQuarter ==
    <<0, 52, 105, 156, 208, 259, 309, 358, 407, 454, 500, 545, 588, 629, 669,
      707, 743, 777, 809, 839, 866, 891, 914, 934, 951, 966, 978, 988, 995,
      999, 1000>>

\* math.sin(a * pi / 60), in Scale units, for any integer a
Sin60(a) ==
    LET m == a % 120
        h == m % 60
        q == IF h <= 30 THEN h ELSE 60 - h
        v == RoundDiv(SinQuarter[q + 1] * Scale, 1000)
    IN  IF m < 60 THEN v ELSE -v

\* math.sin(t * math.pi * k) for t = e / d, in Scale units
SinTPi(e, d, k) == Sin60(RoundDiv(60 * k * e, d))

\* random.uniform(-v, v): the draw u in UnitDraws selects -v, 0 or +v
UnitDraws == {-1, 0, 1}
uniform(v, u) == u * v

Positions == {"DEFAULT", "N", "NE", "E", "SE", "S", "SW", "W", "NW"}
Moods == {"DEFAULT", "TIRED", "ANGRY", "HAPPY"}

\* +1, 0 or -1: the sign of a Position's x and y offsets
PosSignX(p) == IF p \in {"NE", "E", "SE"} THEN 1
               ELSE IF p \in {"SW", "W", "NW"} THEN -1 ELSE 0
PosSignY(p) == IF p \in {"SE", "S", "SW"} THEN 1
               ELSE IF p \in {"N", "NE", "NW"} THEN -1 ELSE 0

---------------------------------------------------------------------------
(* Strings: a str is the sequence of its characters *)

UpperCase ==
    << "A", "B", "C", "D", "E", "F", "G", "H", "I", "J", "K", "L", "M",
       "N", "O", "P", "Q", "R", "S", "T", "U", "V", "W", "X", "Y", "Z" >>
LowerCase ==
    << "a", "b", "c", "d", "e", "f", "g", "h", "i", "j", "k", "l", "m",
       "n", "o", "p", "q", "r", "s", "t", "u", "v", "w", "x", "y", "z" >>

\* str.lower() on one character
LowerChar(c) ==
    IF \E i \in 1..Len(UpperCase) : UpperCase[i] = c
    THEN LowerCase[CHOOSE i \in 1..Len(UpperCase) : UpperCase[i] = c]
    ELSE c

\* str.lower()
lower(str) == [i \in 1..Len(str) |-> LowerChar(str[i])]

WhiteSpace == {" ", "\t", "\n"}

\* str.strip()
RECURSIVE lstrip(_)
lstrip(str) ==
    IF str # <<>> /\ Head(str) \in WhiteSpace THEN lstrip(Tail(str)) ELSE str

RECURSIVE rstrip(_)
rstrip(str) ==
    IF str # <<>> /\ str[Len(str)] \in WhiteSpace
    THEN rstrip(SubSeq(str, 1, Len(str) - 1)) ELSE str

strip(str) == rstrip(lstrip(str))

\* the dict both look() methods build: pairs of alias and Position
LookMapping ==
    {
       <<<<"c", "e", "n", "t", "e", "r">>, "DEFAULT">>,
       <<<<"d", "e", "f", "a", "u", "l", "t">>, "DEFAULT">>,
       <<<<"n">>, "N">>,
       <<<<"n", "o", "r", "t", "h">>, "N">>,
       <<<<"u", "p">>, "N">>,
       <<<<"n", "e">>, "NE">>,
       <<<<"n", "o", "r", "t", "h", "e", "a", "s", "t">>, "NE">>,
       <<<<"e">>, "E">>,
       <<<<"e", "a", "s", "t">>, "E">>,
       <<<<"r", "i", "g", "h", "t">>, "E">>,
       <<<<"s", "e">>, "SE">>,
       <<<<"s", "o", "u", "t", "h", "e", "a", "s", "t">>, "SE">>,
       <<<<"s">>, "S">>,
       <<<<"s", "o", "u", "t", "h">>, "S">>,
       <<<<"d", "o", "w", "n">>, "S">>,
       <<<<"s", "w">>, "SW">>,
       <<<<"s", "o", "u", "t", "h", "w", "e", "s", "t">>, "SW">>,
       <<<<"w">>, "W">>,
       <<<<"w", "e", "s", "t">>, "W">>,
       <<<<"l", "e", "f", "t">>, "W">>,
       <<<<"n", "w">>, "NW">>,
       <<<<"n", "o", "r", "t", "h", "w", "e", "s", "t">>, "NW">>
    }

\* mapping.get(key, Position.DEFAULT)
LookGet(key) ==
    IF \E m \in LookMapping : m[1] = key
    THEN (CHOOSE m \in LookMapping : m[1] = key)[2]
    ELSE "DEFAULT"

---------------------------------------------------------------------------
(* src/roboeyes/eyes.py: class RoboEyes.  A record s holds the instance's   *)
(* attributes (without the leading underscore); every method is an         *)
(* operator from the instance (and the values time.time() and random       *)
(* return during the call) to the instance after the call.                 *)

HalfSecond == TicksPerSec \div 2                 \* the 0.5 s floor of a delay
E_blink_duration == RoundDiv(15 * TicksPerSec, 100)      \* 0.15 s

EyeGeometry ==
    [width |-> 36 * Scale, height |-> 36 * Scale, border_radius |-> 8 * Scale,
     width_next |-> 36 * Scale, height_next |-> 36 * Scale,
     border_radius_next |-> 8 * Scale,
     width_default |-> 36 * Scale, height_default |-> 36 * Scale,
     border_radius_default |-> 8 * Scale]

E_update_constraints(s) ==
    LET eye_w == s.left_eye.width + s.right_eye.width + s.space_between
        eye_h == Max(s.left_eye.height, s.right_eye.height)
    IN  [s EXCEPT !.max_x = RoundDiv(s.screen_width * Scale - eye_w, 2) - 5 * Scale,
                  !.max_y = RoundDiv(s.screen_height * Scale - eye_h, 2) - 5 * Scale]

\* _schedule_next_blink without the 0.5 s floor
E_schedule_next_blink_nofloor(s, now, u) ==
    LET variation == uniform(s.blink_interval_variation, u)
    IN  [s EXCEPT !.next_blink_time = now + s.blink_interval + variation]

E_schedule_next_blink(s, now, u) ==
    LET variation == uniform(s.blink_interval_variation, u)
    IN  [s EXCEPT !.next_blink_time = now + Max(HalfSecond, s.blink_interval + variation)]

E_schedule_next_idle(s, now, u) ==
    LET variation == uniform(s.idle_interval_variation, u)
    IN  [s EXCEPT !.next_idle_time = now + Max(HalfSecond, s.idle_interval + variation)]

\* __init__(width, height, frame_rate) at time now; ub, ui are the two draws
E_init(width, height, frame_rate, now, ub, ui) ==
    LET s0 == [screen_width |-> width, screen_height |-> height,
               frame_rate |-> frame_rate,
               frame_interval |-> TicksPerSec \div frame_rate,
               last_frame_time |-> 0,
               left_eye |-> EyeGeometry, right_eye |-> EyeGeometry,
               space_between |-> 10 * Scale,
               x |-> 0, y |-> 0, x_next |-> 0, y_next |-> 0,
               left_open |-> Scale, right_open |-> Scale,
               left_open_next |-> Scale, right_open_next |-> Scale,
               mood |-> "DEFAULT", tired |-> FALSE, angry |-> FALSE, happy |-> FALSE,
               cyclops |-> FALSE, curious |-> FALSE,
               h_flicker |-> FALSE, v_flicker |-> FALSE,
               h_flicker_amplitude |-> 2, v_flicker_amplitude |-> 2,
               sweat |-> FALSE, sweat_pos |-> <<0, 0, 0>>,
               sweat_sizes |-> <<Scale, Scale, Scale>>,
               autoblinker |-> FALSE, idle |-> FALSE,
               confused |-> FALSE, laugh |-> FALSE,
               blink_interval |-> 4 * TicksPerSec,
               blink_interval_variation |-> 2 * TicksPerSec,
               next_blink_time |-> 0,
               is_blinking |-> FALSE, blink_start_time |-> 0,
               blink_duration |-> E_blink_duration,
               \* _blink_left and _blink_right do not exist until blink() is
               \* called; they are read only while is_blinking
               blink_left |-> FALSE, blink_right |-> FALSE,
               idle_interval |-> 3 * TicksPerSec,
               idle_interval_variation |-> 2 * TicksPerSec,
               next_idle_time |-> 0,
               confused_duration |-> HalfSecond, confused_start_time |-> 0,
               laugh_duration |-> HalfSecond, laugh_start_time |-> 0,
               max_x |-> 0, max_y |-> 0]
    IN  E_schedule_next_idle(
            E_schedule_next_blink(E_update_constraints(s0), now, ub), now, ui)

E_set_frame_rate(s, fps) ==
    [s EXCEPT !.frame_rate = fps, !.frame_interval = TicksPerSec \div fps]

E_set_width(s, left, right) ==
    E_update_constraints(
        [s EXCEPT !.left_eye.width_next = left, !.left_eye.width_default = left,
                  !.right_eye.width_next = right, !.right_eye.width_default = right])

E_set_height(s, left, right) ==
    E_update_constraints(
        [s EXCEPT !.left_eye.height_next = left, !.left_eye.height_default = left,
                  !.right_eye.height_next = right, !.right_eye.height_default = right])

E_set_border_radius(s, left, right) ==
    [s EXCEPT !.left_eye.border_radius_next = left,
              !.left_eye.border_radius_default = left,
              !.right_eye.border_radius_next = right,
              !.right_eye.border_radius_default = right]

E_set_space_between(s, space) ==
    E_update_constraints([s EXCEPT !.space_between = space])

\* set_mood that raises the flag of the new mood and clears none
E_set_mood_sticky(s, mood) ==
    [s EXCEPT !.mood = mood, !.tired = @ \/ (mood = "TIRED"),
              !.angry = @ \/ (mood = "ANGRY"), !.happy = @ \/ (mood = "HAPPY")]

E_set_mood(s, mood) ==
    [s EXCEPT !.mood = mood, !.tired = (mood = "TIRED"),
              !.angry = (mood = "ANGRY"), !.happy = (mood = "HAPPY")]

E_set_position(s, position) ==
    [s EXCEPT !.x_next = PosSignX(position) * RoundDiv(s.max_x * 8, 10),
              !.y_next = PosSignY(position) * RoundDiv(s.max_y * 8, 10)]

E_look_nostrip(s, direction) == E_set_position(s, LookGet(lower(direction)))

E_look(s, direction) == E_set_position(s, LookGet(strip(lower(direction))))

E_open(s, left, right) ==
    [s EXCEPT !.left_open_next = IF left THEN Scale ELSE @,
              !.right_open_next = IF right THEN Scale ELSE @]

\* close() that closes both eyes whatever its arguments
E_close_both(s, left, right) ==
    [s EXCEPT !.left_open_next = 0, !.right_open_next = 0]

E_close(s, left, right) ==
    [s EXCEPT !.left_open_next = IF left THEN 0 ELSE @,
              !.right_open_next = IF right THEN 0 ELSE @]

E_blink(s, now, left, right) ==
    [s EXCEPT !.is_blinking = TRUE, !.blink_start_time = now,
              !.blink_left = left, !.blink_right = right]

\* wink_left() that blinks both eyes
E_wink_left_both(s, now) ==
    [s EXCEPT !.is_blinking = TRUE, !.blink_start_time = now,
              !.blink_left = TRUE, !.blink_right = TRUE]

E_wink_left(s, now) == E_blink(s, now, TRUE, FALSE)

E_wink_right(s, now) == E_blink(s, now, FALSE, TRUE)

\* set_cyclops that also switches curiosity mode off
E_set_cyclops_alone(s, enabled) == [s EXCEPT !.cyclops = enabled, !.curious = FALSE]

E_set_cyclops(s, enabled) == [s EXCEPT !.cyclops = enabled]

E_set_curiosity(s, enabled) == [s EXCEPT !.curious = enabled]

\* amplitudes are whole pixels
E_set_h_flicker(s, enabled, amplitude) ==
    [s EXCEPT !.h_flicker = enabled, !.h_flicker_amplitude = amplitude]

E_set_v_flicker(s, enabled, amplitude) ==
    [s EXCEPT !.v_flicker = enabled, !.v_flicker_amplitude = amplitude]

E_set_sweat(s, enabled) ==
    IF enabled
    THEN [s EXCEPT !.sweat = TRUE,
                   !.sweat_pos = <<0, 5 * Scale, 10 * Scale>>,
                   !.sweat_sizes = <<Scale, RoundDiv(8 * Scale, 10),
                                     RoundDiv(6 * Scale, 10)>>]
    ELSE [s EXCEPT !.sweat = FALSE]

E_set_autoblinker(s, now, enabled, interval, variation, u) ==
    LET s1 == [s EXCEPT !.autoblinker = enabled, !.blink_interval = interval,
                        !.blink_interval_variation = variation]
    IN  IF enabled THEN E_schedule_next_blink(s1, now, u) ELSE s1

E_set_idle_mode(s, now, enabled, interval, variation, u) ==
    LET s1 == [s EXCEPT !.idle = enabled, !.idle_interval = interval,
                        !.idle_interval_variation = variation]
    IN  IF enabled THEN E_schedule_next_idle(s1, now, u) ELSE s1

E_anim_confused(s, now, duration) ==
    [s EXCEPT !.confused = TRUE, !.confused_start_time = now,
              !.confused_duration = duration]

E_anim_laugh(s, now, duration) ==
    [s EXCEPT !.laugh = TRUE, !.laugh_start_time = now,
              !.laugh_duration = duration]

E_tween(current, target) == RoundDiv(current + target, 2)

\* a fast tween that steps past the target
E_tween_fast_over(current, target) ==
    current + RoundDiv((target - current) * 14, 10)

E_tween_fast(current, target) == current + RoundDiv((target - current) * 4, 10)

\* whether this tick's _process_auto_behaviors fires the autoblinker
E_blink_due(s, now) ==
    s.autoblinker /\ ~s.is_blinking /\ now >= s.next_blink_time

\* an idle-mode guard that ignores the running shakes
E_idle_due_unguarded(s, now) == s.idle /\ now >= s.next_idle_time

\* whether this tick's _process_auto_behaviors moves the gaze (idle mode)
E_idle_due(s, now) ==
    s.idle /\ ~s.confused /\ ~s.laugh /\ now >= s.next_idle_time

\* ub, ui: the draws of the two reschedules; p: random.choice(positions)
\* an autoblinker that winks: its blink covers the left eye only
E_process_auto_behaviors_wink(s, now, ub, ui, p) ==
    LET s1 == IF E_blink_due(s, now)
              THEN E_schedule_next_blink(E_blink(s, now, TRUE, FALSE), now, ub)
              ELSE s
    IN  IF E_idle_due(s1, now)
        THEN E_schedule_next_idle(E_set_position(s1, p), now, ui)
        ELSE s1

E_process_auto_behaviors(s, now, ub, ui, p) ==
    LET s1 == IF E_blink_due(s, now)
              THEN E_schedule_next_blink(E_blink(s, now, TRUE, TRUE), now, ub)
              ELSE s
    IN  IF E_idle_due(s1, now)
        THEN E_schedule_next_idle(E_set_position(s1, p), now, ui)
        ELSE s1

\* a blink curve that closes the eye and does not open it again:
\* 1.0 - math.sin(t * math.pi / 2)
BlinkCurve_closing(elapsed, duration) == Scale - SinTPi(elapsed, 2 * duration, 1)

\* a blink curve twice as deep: 1.0 - 2 * math.sin(t * math.pi)
BlinkCurve_deep(elapsed, duration) == Scale - 2 * SinTPi(elapsed, duration, 1)

\* 1.0 - math.sin(t * math.pi) at t = elapsed / duration
BlinkCurve(elapsed, duration) == Scale - SinTPi(elapsed, duration, 1)

\* a shake that does not decay: math.sin(t * math.pi * cycles) * amplitude
Shake_undamped(elapsed, duration, cycles, amplitude) ==
    SinTPi(elapsed, duration, cycles) * amplitude

\* math.sin(t * math.pi * cycles) * amplitude * (1 - t) at t = elapsed / duration,
\* amplitude in pixels
Shake(elapsed, duration, cycles, amplitude) ==
    RoundDiv(SinTPi(elapsed, duration, cycles) * amplitude * (duration - elapsed),
             duration)

E_process_animations(s, now) ==
    LET b_elapsed == now - s.blink_start_time
        s1 == IF ~s.is_blinking THEN s
              ELSE IF b_elapsed >= s.blink_duration
              THEN [s EXCEPT !.is_blinking = FALSE,
                             !.left_open_next = IF s.blink_left THEN Scale ELSE @,
                             !.right_open_next = IF s.blink_right THEN Scale ELSE @]
              ELSE LET blink_curve == BlinkCurve(b_elapsed, s.blink_duration)
                   IN  [s EXCEPT !.left_open = IF s.blink_left THEN blink_curve ELSE @,
                                 !.right_open = IF s.blink_right THEN blink_curve ELSE @]
        c_elapsed == now - s1.confused_start_time
        s2 == IF ~s1.confused THEN s1
              ELSE IF c_elapsed >= s1.confused_duration
              THEN [s1 EXCEPT !.confused = FALSE]
              ELSE [s1 EXCEPT !.x = s1.x_next
                                    + Shake(c_elapsed, s1.confused_duration, 8, 15)]
        l_elapsed == now - s2.laugh_start_time
    IN  IF ~s2.laugh THEN s2
        ELSE IF l_elapsed >= s2.laugh_duration
        THEN [s2 EXCEPT !.laugh = FALSE]
        ELSE [s2 EXCEPT !.y = s2.y_next
                              + Shake(l_elapsed, s2.laugh_duration, 10, 8)]

\* a tween that also moves the targets half-way back to the current values
E_tween_eye_back(g) ==
    [g EXCEPT !.width = E_tween(g.width, g.width_next),
              !.height = E_tween(g.height, g.height_next),
              !.border_radius = E_tween(g.border_radius, g.border_radius_next),
              !.width_next = E_tween(g.width_next, g.width)]

\* the tween of one eye's width, height and corner radius
E_tween_eye(g) ==
    [g EXCEPT !.width = E_tween(g.width, g.width_next),
              !.height = E_tween(g.height, g.height_next),
              !.border_radius = E_tween(g.border_radius, g.border_radius_next)]

E_update_geometry(s) ==
    LET s1 == [s EXCEPT !.x = IF ~s.confused THEN E_tween(s.x, s.x_next) ELSE @,
                        !.y = IF ~s.laugh THEN E_tween(s.y, s.y_next) ELSE @]
        s2 == IF ~s1.is_blinking
              THEN [s1 EXCEPT !.left_open = E_tween_fast(s1.left_open, s1.left_open_next),
                              !.right_open = E_tween_fast(s1.right_open, s1.right_open_next)]
              ELSE s1
        \* abs(x) / max(max_x, 1) * 0.3
        look_amount == RoundDiv(Abs(s2.x) * 3 * Scale, Max(s2.max_x, Scale) * 10)
        grown(h) == RoundDiv(h * (Scale + look_amount), Scale)
        s3 == IF ~s2.curious THEN s2
              ELSE IF s2.x > 5 * Scale
              THEN [s2 EXCEPT !.left_eye.height_next = grown(s2.left_eye.height_default)]
              ELSE IF s2.x < -5 * Scale
              THEN [s2 EXCEPT !.right_eye.height_next = grown(s2.right_eye.height_default)]
              ELSE [s2 EXCEPT !.left_eye.height_next = s2.left_eye.height_default,
                              !.right_eye.height_next = s2.right_eye.height_default]
    IN  [s3 EXCEPT !.left_eye = E_tween_eye(@), !.right_eye = E_tween_eye(@)]

\* one drop of _update_sweat: its position and size after the tick; r is the
\* draw of random.uniform(0, 10) a drop takes when it passes 50
\* a drop that is never sent back to the start
E_sweat_drop_on(pos, r) ==
    LET moved == pos + RoundDiv(15 * Scale, 10)
    IN  <<moved, Scale - RoundDiv(moved * 5, 50 * 10)>>

E_sweat_drop(pos, r) ==
    LET moved == pos + RoundDiv(15 * Scale, 10)
    IN  IF moved > 50 * Scale THEN <<r, Scale>>
        ELSE <<moved, Scale - RoundDiv(moved * 5, 50 * 10)>>

\* whether drop i takes a random draw in this tick
E_sweat_resets(s, i) ==
    s.sweat /\ s.sweat_pos[i] + RoundDiv(15 * Scale, 10) > 50 * Scale

\* sw: the three draws
E_update_sweat(s, sw) ==
    IF ~s.sweat THEN s
    ELSE [s EXCEPT !.sweat_pos = [i \in 1..3 |-> E_sweat_drop(s.sweat_pos[i], sw[i])[1]],
                   !.sweat_sizes = [i \in 1..3 |-> E_sweat_drop(s.sweat_pos[i], sw[i])[2]]]

\* PacingPoint without the wait
PacingPoint_NoWait(last_frame_time, frame_interval, now, j) == now

\* The pacing point of update(): the value time.time() returns after the
\* frame-rate wait, for a call entered at `now` that oversleeps by j ticks.
\* (Both implementations: eyes.py lines 636-640, roboeyes_2.py lines 576-580.)
PacingPoint(last_frame_time, frame_interval, now, j) ==
    LET elapsed == now - last_frame_time
    IN  IF elapsed < frame_interval
        THEN now + (frame_interval - elapsed) + j
        ELSE now

\* random.randint(-a, a) raises ValueError for a < 0
E_update_raises(s) ==
    \/ s.h_flicker /\ s.h_flicker_amplitude < 0
    \/ s.v_flicker /\ s.v_flicker_amplitude < 0

\* the state update() leaves, whether it returns the frame or raises while
\* drawing; t is the pacing point
\* an update() that interpolates before it looks at the timers
E_update_late(s, t, ub, ui, p, sw) ==
    E_update_sweat(
        E_process_animations(
            E_process_auto_behaviors(
                E_update_geometry([s EXCEPT !.last_frame_time = t]), t, ub, ui, p),
            t),
        sw)

E_update(s, t, ub, ui, p, sw) ==
    E_update_sweat(
        E_update_geometry(
            E_process_animations(
                E_process_auto_behaviors([s EXCEPT !.last_frame_time = t],
                                         t, ub, ui, p),
                t)),
        sw)

---------------------------------------------------------------------------
(* src/roboeyes_2.py: class RoboEyes.  The record's field `state` is the    *)
(* EyeState; the running animation (_animation_func, a lambda closing over *)
(* the animation and its arguments) is the record animation_func.          *)

R2_blink_duration == TicksPerSec \div 4                  \* duration=0.25
R2_transition_speed == RoundDiv(15 * Scale, 100)         \* 0.15
R2_blink_speed == RoundDiv(4 * Scale, 10)                \* 0.4
R2_epsilon == RoundDiv(Scale, 100)                       \* the 0.01 of _lerp

EyeConfig ==
    [width |-> 80 * Scale, height |-> 80 * Scale, border_radius |-> 15 * Scale,
     width_default |-> 80 * Scale, height_default |-> 80 * Scale,
     border_radius_default |-> 15 * Scale]

EyeState ==
    [x_offset |-> 0, y_offset |-> 0,
     left_width |-> 80 * Scale, left_height |-> 80 * Scale, left_radius |-> 15 * Scale,
     right_width |-> 80 * Scale, right_height |-> 80 * Scale, right_radius |-> 15 * Scale,
     left_open |-> Scale, right_open |-> Scale,
     left_top_mod |-> 0, left_bottom_mod |-> 0,
     right_top_mod |-> 0, right_bottom_mod |-> 0]

\* _animation_func = None
NoAnimation == [kind |-> "none", left |-> FALSE, right |-> FALSE]

R2_update_eye_dimensions(s) ==
    [s EXCEPT !.state.left_width = s.left_eye.width,
              !.state.left_height = s.left_eye.height,
              !.state.left_radius = s.left_eye.border_radius,
              !.state.right_width = s.right_eye.width,
              !.state.right_height = s.right_eye.height,
              !.state.right_radius = s.right_eye.border_radius]

R2_schedule_next_blink(s, now, u) ==
    LET delay == s.autoblink_interval + uniform(s.autoblink_variation, u)
    IN  [s EXCEPT !.next_blink_time = now + Max(HalfSecond, delay)]

R2_schedule_next_idle(s, now, u) ==
    LET delay == s.idle_interval + uniform(s.idle_variation, u)
    IN  [s EXCEPT !.next_idle_time = now + Max(HalfSecond, delay)]

R2_init(width, height, frame_rate, now, ub, ui) ==
    LET s0 == [width |-> width, height |-> height,
               frame_rate |-> frame_rate,
               frame_time |-> TicksPerSec \div frame_rate,
               last_frame_time |-> 0,
               left_eye |-> EyeConfig, right_eye |-> EyeConfig,
               space_between |-> 20 * Scale,
               state |-> EyeState,
               target_x_offset |-> 0, target_y_offset |-> 0,
               target_left_open |-> Scale, target_right_open |-> Scale,
               target_left_top_mod |-> 0, target_left_bottom_mod |-> 0,
               target_right_top_mod |-> 0, target_right_bottom_mod |-> 0,
               transition_speed |-> R2_transition_speed,
               blink_speed |-> R2_blink_speed,
               mood |-> "DEFAULT", position |-> "DEFAULT",
               cyclops_mode |-> FALSE, curiosity_mode |-> FALSE,
               h_flicker |-> FALSE, v_flicker |-> FALSE,
               h_flicker_amplitude |-> 2, v_flicker_amplitude |-> 2,
               sweat_enabled |-> FALSE, sweat_y |-> 0, sweat_visible |-> FALSE,
               autoblink_enabled |-> FALSE,
               autoblink_interval |-> 4 * TicksPerSec,
               autoblink_variation |-> 2 * TicksPerSec,
               next_blink_time |-> 0,
               idle_mode |-> FALSE,
               idle_interval |-> 3 * TicksPerSec,
               idle_variation |-> 2 * TicksPerSec,
               next_idle_time |-> 0,
               animating |-> FALSE, animation_func |-> NoAnimation,
               animation_start_time |-> 0,
               \* _animation_duration does not exist until _start_animation()
               animation_duration |-> 0]
    IN  R2_schedule_next_idle(
            R2_schedule_next_blink(R2_update_eye_dimensions(s0), now, ub), now, ui)

R2_set_width(s, left, right) ==
    R2_update_eye_dimensions(
        [s EXCEPT !.left_eye.width = left, !.left_eye.width_default = left,
                  !.right_eye.width = right, !.right_eye.width_default = right])

R2_set_height(s, left, right) ==
    R2_update_eye_dimensions(
        [s EXCEPT !.left_eye.height = left, !.left_eye.height_default = left,
                  !.right_eye.height = right, !.right_eye.height_default = right])

R2_set_border_radius(s, left, right) ==
    R2_update_eye_dimensions(
        [s EXCEPT !.left_eye.border_radius = left,
                  !.left_eye.border_radius_default = left,
                  !.right_eye.border_radius = right,
                  !.right_eye.border_radius_default = right])

R2_set_space_between(s, space) == [s EXCEPT !.space_between = space]

R2_set_cyclops(s, enabled) == [s EXCEPT !.cyclops_mode = enabled]

R2_set_curiosity(s, enabled) == [s EXCEPT !.curiosity_mode = enabled]

\* mood targets with Happy also raising the top modifier
R2_mood_targets_brow(mood) ==
    IF mood = "HAPPY" THEN <<RoundDiv(Scale, 10), RoundDiv(4 * Scale, 10)>>
    ELSE IF mood = "ANGRY" THEN <<RoundDiv(35 * Scale, 100), 0>>
    ELSE IF mood = "TIRED" THEN <<RoundDiv(5 * Scale, 10), 0>>
    ELSE <<0, 0>>

\* the target modifiers <<top, bottom>> of a mood, the same for both eyes
R2_mood_targets(mood) ==
    IF mood = "HAPPY" THEN <<0, RoundDiv(4 * Scale, 10)>>
    ELSE IF mood = "ANGRY" THEN <<RoundDiv(35 * Scale, 100), 0>>
    ELSE IF mood = "TIRED" THEN <<RoundDiv(5 * Scale, 10), 0>>
    ELSE <<0, 0>>

\* set_mood that also writes the current modifiers
R2_set_mood_snap(s, mood) ==
    [s EXCEPT !.mood = mood,
              !.target_left_top_mod = R2_mood_targets(mood)[1],
              !.target_left_bottom_mod = R2_mood_targets(mood)[2],
              !.target_right_top_mod = R2_mood_targets(mood)[1],
              !.target_right_bottom_mod = R2_mood_targets(mood)[2],
              !.state.left_top_mod = R2_mood_targets(mood)[1],
              !.state.left_bottom_mod = R2_mood_targets(mood)[2],
              !.state.right_top_mod = R2_mood_targets(mood)[1],
              !.state.right_bottom_mod = R2_mood_targets(mood)[2]]

R2_set_mood(s, mood) ==
    [s EXCEPT !.mood = mood,
              !.target_left_top_mod = R2_mood_targets(mood)[1],
              !.target_left_bottom_mod = R2_mood_targets(mood)[2],
              !.target_right_top_mod = R2_mood_targets(mood)[1],
              !.target_right_bottom_mod = R2_mood_targets(mood)[2]]

\* the travel budget set_position computes from the configured eye sizes
R2_max_x(s) ==
    RoundDiv(s.width * Scale - s.left_eye.width - s.right_eye.width
                 - s.space_between, 2) - 10 * Scale

R2_max_y(s) ==
    RoundDiv(s.height * Scale - Max(s.left_eye.height, s.right_eye.height), 2)
        - 10 * Scale

\* set_position that also puts the current gaze at the new target
R2_set_position_snap(s, position) ==
    LET max_x == RoundDiv(s.width * Scale - s.left_eye.width - s.right_eye.width
                              - s.space_between, 2) - 10 * Scale
        max_y == RoundDiv(s.height * Scale
                              - Max(s.left_eye.height, s.right_eye.height), 2)
                 - 10 * Scale
    IN  [s EXCEPT !.position = position,
                  !.target_x_offset = PosSignX(position) * RoundDiv(max_x * 7, 10),
                  !.target_y_offset = PosSignY(position) * RoundDiv(max_y * 7, 10),
                  !.state.x_offset = PosSignX(position) * RoundDiv(max_x * 7, 10),
                  !.state.y_offset = PosSignY(position) * RoundDiv(max_y * 7, 10)]

R2_set_position(s, position) ==
    LET max_x == RoundDiv(s.width * Scale - s.left_eye.width - s.right_eye.width
                              - s.space_between, 2) - 10 * Scale
        max_y == RoundDiv(s.height * Scale
                              - Max(s.left_eye.height, s.right_eye.height), 2)
                 - 10 * Scale
    IN  [s EXCEPT !.position = position,
                  !.target_x_offset = PosSignX(position) * RoundDiv(max_x * 7, 10),
                  !.target_y_offset = PosSignY(position) * RoundDiv(max_y * 7, 10)]

R2_look(s, direction) == R2_set_position(s, LookGet(lower(direction)))

R2_open(s, left, right) ==
    [s EXCEPT !.target_left_open = IF left THEN Scale ELSE @,
              !.target_right_open = IF right THEN Scale ELSE @]

R2_close(s, left, right) ==
    [s EXCEPT !.target_left_open = IF left THEN 0 ELSE @,
              !.target_right_open = IF right THEN 0 ELSE @]

R2_start_animation(s, now, func, duration) ==
    [s EXCEPT !.animating = TRUE, !.animation_func = func,
              !.animation_start_time = now, !.animation_duration = duration]

R2_blink(s, now, left, right) ==
    R2_start_animation(s, now, [kind |-> "blink", left |-> left, right |-> right],
                       R2_blink_duration)

R2_wink_left(s, now) == R2_blink(s, now, TRUE, FALSE)

R2_wink_right(s, now) == R2_blink(s, now, FALSE, TRUE)

R2_anim_confused(s, now, duration) ==
    R2_start_animation(s, now, [kind |-> "confused", left |-> FALSE, right |-> FALSE],
                       duration)

R2_anim_laugh(s, now, duration) ==
    R2_start_animation(s, now, [kind |-> "laugh", left |-> FALSE, right |-> FALSE],
                       duration)

\* the animation functions at progress t = e / d (0 <= e <= d, d > 0): the
\* instance after the call; each returns t >= 1.0, that is e >= d
\* a blink animation that also re-opens the target of the eyes it covers
R2_blink_animation_reopen(s, e, d, left, right) ==
    LET blink_curve == BlinkCurve(e, d)
    IN  [s EXCEPT !.state.left_open = IF left THEN blink_curve ELSE @,
                  !.state.right_open = IF right THEN blink_curve ELSE @,
                  !.target_left_open = IF left THEN Scale ELSE @,
                  !.target_right_open = IF right THEN Scale ELSE @]

R2_blink_animation(s, e, d, left, right) ==
    LET blink_curve == BlinkCurve(e, d)
    IN  [s EXCEPT !.state.left_open = IF left THEN blink_curve ELSE @,
                  !.state.right_open = IF right THEN blink_curve ELSE @]

R2_confused_animation(s, e, d) ==
    [s EXCEPT !.state.x_offset = s.target_x_offset + Shake(e, d, 8, 15)]

R2_laugh_animation(s, e, d) ==
    [s EXCEPT !.state.y_offset = s.target_y_offset + Shake(e, d, 10, 8)]

R2_set_h_flicker(s, enabled, amplitude) ==
    [s EXCEPT !.h_flicker = enabled, !.h_flicker_amplitude = amplitude]

R2_set_v_flicker(s, enabled, amplitude) ==
    [s EXCEPT !.v_flicker = enabled, !.v_flicker_amplitude = amplitude]

R2_set_sweat(s, enabled) ==
    IF enabled
    THEN [s EXCEPT !.sweat_enabled = TRUE, !.sweat_y = 0, !.sweat_visible = TRUE]
    ELSE [s EXCEPT !.sweat_enabled = FALSE]

R2_set_autoblink(s, now, enabled, interval, variation, u) ==
    LET s1 == [s EXCEPT !.autoblink_enabled = enabled, !.autoblink_interval = interval,
                        !.autoblink_variation = variation]
    IN  IF enabled THEN R2_schedule_next_blink(s1, now, u) ELSE s1

R2_set_idle_mode(s, now, enabled, interval, variation, u) ==
    LET s1 == [s EXCEPT !.idle_mode = enabled, !.idle_interval = interval,
                        !.idle_variation = variation]
    IN  IF enabled THEN R2_schedule_next_idle(s1, now, u) ELSE s1

\* _lerp without the snap
R2_lerp_nosnap(current, target, speed) ==
    current + RoundDiv((target - current) * speed, Scale)

\* _lerp at half the speed it is given
R2_lerp_slow(current, target, speed) ==
    LET diff == target - current
    IN  IF Abs(diff) < R2_epsilon THEN target
        ELSE current + RoundDiv(diff * speed, 2 * Scale)

\* _lerp that halves the distance whatever speed it is given
R2_lerp_half(current, target, speed) ==
    LET diff == target - current
    IN  IF Abs(diff) < R2_epsilon THEN target
        ELSE current + RoundDiv(diff, 2)

R2_lerp(current, target, speed) ==
    LET diff == target - current
    IN  IF Abs(diff) < R2_epsilon THEN target
        ELSE current + RoundDiv(diff * speed, Scale)

R2_update_state(s) ==
    LET st == s.state
        st1 == [st EXCEPT
                  !.x_offset = R2_lerp(@, s.target_x_offset, s.transition_speed),
                  !.y_offset = R2_lerp(@, s.target_y_offset, s.transition_speed),
                  !.left_open = R2_lerp(@, s.target_left_open, s.blink_speed),
                  !.right_open = R2_lerp(@, s.target_right_open, s.blink_speed),
                  !.left_top_mod = R2_lerp(@, s.target_left_top_mod, s.transition_speed),
                  !.left_bottom_mod =
                      R2_lerp(@, s.target_left_bottom_mod, s.transition_speed),
                  !.right_top_mod = R2_lerp(@, s.target_right_top_mod, s.transition_speed),
                  !.right_bottom_mod =
                      R2_lerp(@, s.target_right_bottom_mod, s.transition_speed)]
        \* abs(x_offset) / 50
        look_amount == RoundDiv(Abs(st1.x_offset), 50)
        \* height_default * (1 + look_amount * 0.2)
        grown(h) == RoundDiv(h * (10 * Scale + 2 * look_amount), 10 * Scale)
        st2 == IF ~s.curiosity_mode THEN st1
               ELSE IF st1.x_offset > 5 * Scale
               THEN [st1 EXCEPT !.left_height = grown(s.left_eye.height_default)]
               ELSE IF st1.x_offset < -5 * Scale
               THEN [st1 EXCEPT !.right_height = grown(s.right_eye.height_default)]
               ELSE [st1 EXCEPT !.left_height = s.left_eye.height_default,
                                !.right_height = s.right_eye.height_default]
    IN  [s EXCEPT !.state = st2]

R2_blink_due(s, now) ==
    s.autoblink_enabled /\ now >= s.next_blink_time /\ ~s.animating

R2_idle_due(s, now) ==
    s.idle_mode /\ now >= s.next_idle_time /\ ~s.animating

R2_process_auto_behaviors(s, now, ub, ui, p) ==
    LET s1 == IF R2_blink_due(s, now)
              THEN R2_schedule_next_blink(R2_blink(s, now, TRUE, TRUE), now, ub)
              ELSE s
    IN  IF R2_idle_due(s1, now)
        THEN R2_schedule_next_idle(R2_set_position(s1, p), now, ui)
        ELSE s1

\* elapsed / self._animation_duration raises ZeroDivisionError
R2_process_animation_raises(s) ==
    s.animating /\ s.animation_func.kind # "none" /\ s.animation_duration = 0

\* _process_animation when it does not raise
R2_process_animation(s, now) ==
    IF ~s.animating \/ s.animation_func.kind = "none" THEN s
    ELSE LET d == s.animation_duration
             e == Min(d, now - s.animation_start_time)       \* t = min(1.0, ...)
             f == s.animation_func
             s1 == IF f.kind = "blink" THEN R2_blink_animation(s, e, d, f.left, f.right)
                   ELSE IF f.kind = "confused" THEN R2_confused_animation(s, e, d)
                   ELSE R2_laugh_animation(s, e, d)
         IN  IF e >= d
             THEN [s1 EXCEPT !.animating = FALSE, !.animation_func = NoAnimation]
             ELSE s1

\* random.randint(-a, a) raises ValueError for a < 0
R2_flicker_raises(s) ==
    \/ s.h_flicker /\ s.h_flicker_amplitude < 0
    \/ s.v_flicker /\ s.v_flicker_amplitude < 0

\* whether update() entered in state s raises instead of returning a frame
\* (an automatic blink never starts while an animation runs, and has d > 0)
R2_update_raises(s) == R2_process_animation_raises(s) \/ R2_flicker_raises(s)

\* _draw_sweat_drop moves the drop when update() draws it (two-eye mode)
R2_draw_sweat_drop(s) ==
    IF s.cyclops_mode \/ ~s.sweat_enabled \/ ~s.sweat_visible THEN s
    ELSE [s EXCEPT !.sweat_y = IF @ + 2 * Scale > 40 * Scale THEN 0
                                ELSE @ + 2 * Scale]

\* the state update() leaves, whether it returns the frame or raises; t is
\* the pacing point
R2_update(s, t, ub, ui, p) ==
    LET s1 == R2_process_auto_behaviors([s EXCEPT !.last_frame_time = t], t, ub, ui, p)
    IN  IF R2_process_animation_raises(s1) THEN s1
        ELSE LET s2 == R2_update_state(R2_process_animation(s1, t))
             IN  IF R2_flicker_raises(s2) THEN s2 ELSE R2_draw_sweat_drop(s2)

---------------------------------------------------------------------------
(* Rendering.  A frame is the sequence of the draw calls update() makes on  *)
(* the ImageDraw: each with its kind, the part of the face it paints, the   *)
(* corners x1, y1, x2, y2 of its box (of the bounding box of the points of  *)
(* a polygon) and its radius argument (0 where it has none), all in         *)
(* thousandths of a pixel.  fx and fy are the flicker draws, in pixels.     *)

Prim(kind, part, x1, y1, x2, y2, radius) ==
    [kind |-> kind, part |-> part, x1 |-> x1, y1 |-> y1, x2 |-> x2, y2 |-> y2,
     radius |-> radius]

\* int(v) that drops to the multiple of four pixels below
Trunc_coarse(v) == (v \div (4 * Scale)) * 4

\* int(v), in pixels: the fraction is dropped, toward zero
Trunc(v) == IF v >= 0 THEN v \div Scale ELSE -((-v) \div Scale)

\* no eye is too small
E_too_small_never(width, height) == FALSE

\* eyes.py _draw_eye skips an eye under 4 pixels wide or high
E_too_small(width, height) == width < 4 \/ height < 4

\* eyes.py _draw_eye; the overlay's part tells the mood that draws it
E_draw_eye(s, fx, fy, fwidth, fheight, fradius, is_left) ==
    LET x == Trunc(fx)
        y == Trunc(fy)
        width == Trunc(fwidth)
        height == Trunc(fheight)
        radius == Min(Min(Trunc(fradius), width \div 2), height \div 2)
        eye == IF x + width > x /\ y + height > y
               THEN << Prim("rounded_rectangle", "eye", x * Scale, y * Scale,
                            (x + width) * Scale, (y + height) * Scale,
                            radius * Scale) >>
               ELSE <<>>
        tired_lid == (height * 4) \div 10      \* int(height * 0.4)
        angry_lid == (height * 35) \div 100    \* int(height * 0.35)
        overlay ==
            IF height < 20 THEN <<>>
            ELSE IF s.tired
            THEN << Prim("polygon", "tired", (x - 2) * Scale, (y - 2) * Scale,
                         (x + width + 2) * Scale, (y + tired_lid) * Scale, 0) >>
            ELSE IF s.angry
            THEN << Prim("polygon", "angry", (x - 2) * Scale, (y - 2) * Scale,
                         (x + width + 2) * Scale, (y + angry_lid) * Scale, 0) >>
            ELSE IF s.happy /\ y + height + 2 > y + height - tired_lid
            THEN << Prim("rounded_rectangle", "happy", (x - 2) * Scale,
                         (y + height - tired_lid) * Scale,
                         (x + width + 2) * Scale, (y + height + 2) * Scale,
                         radius * Scale) >>
            ELSE <<>>
    IN  IF E_too_small(width, height) THEN <<>> ELSE eye \o overlay

\* eyes.py _draw_sweat_drops: drop i (0, 1, 2) is an ellipse and a triangle
E_draw_sweat_drop(s, eye_x, eye_y, i) ==
    LET drop_x == eye_x + 10 * Scale + i * 8 * Scale
        drop_y == eye_y - 5 * Scale + s.sweat_pos[i + 1]
        drop_w == Trunc(4 * s.sweat_sizes[i + 1])
        drop_h == Trunc(6 * s.sweat_sizes[i + 1])
    IN  IF drop_w > 1 /\ drop_h > 1
        THEN << Prim("ellipse", "sweat", drop_x - drop_w * Scale, drop_y,
                     drop_x + drop_w * Scale, drop_y + drop_h * Scale, 0),
                Prim("polygon", "sweat", drop_x - drop_w * Scale,
                     Min(drop_y - (drop_h \div 2) * Scale, drop_y + 2 * Scale),
                     drop_x + drop_w * Scale,
                     Max(drop_y - (drop_h \div 2) * Scale, drop_y + 2 * Scale), 0) >>
        ELSE <<>>

E_draw_sweat_drops(s, eye_x, eye_y) ==
    IF ~s.sweat THEN <<>>
    ELSE E_draw_sweat_drop(s, eye_x, eye_y, 0) \o E_draw_sweat_drop(s, eye_x, eye_y, 1)
             \o E_draw_sweat_drop(s, eye_x, eye_y, 2)

\* the draw calls of eyes.py update() on the state s it has advanced to
E_render(s, fx, fy) ==
    LET center_x == (s.screen_width * Scale) \div 2
        center_y == (s.screen_height * Scale) \div 2
        offset_x == s.x + fx * Scale
        offset_y == s.y + fy * Scale
        left_h == RoundDiv(s.left_eye.height * s.left_open, Scale)
        right_h == RoundDiv(s.right_eye.height * s.right_open, Scale)
        total_width == s.left_eye.width + s.space_between + s.right_eye.width
        start_x == center_x - RoundDiv(total_width, 2) + offset_x
        right_x == start_x + s.left_eye.width + s.space_between
        right_y == center_y - RoundDiv(right_h, 2) + offset_y
    IN  IF s.cyclops
        THEN IF left_h > Scale
             THEN E_draw_eye(s, center_x - RoundDiv(s.left_eye.width, 2) + offset_x,
                             center_y - RoundDiv(left_h, 2) + offset_y,
                             s.left_eye.width, left_h, s.left_eye.border_radius, TRUE)
             ELSE <<>>
        ELSE (IF left_h > Scale
              THEN E_draw_eye(s, start_x, center_y - RoundDiv(left_h, 2) + offset_y,
                              s.left_eye.width, left_h, s.left_eye.border_radius, TRUE)
              ELSE <<>>)
             \o (IF right_h > Scale
                 THEN E_draw_eye(s, right_x, right_y, s.right_eye.width, right_h,
                                 s.right_eye.border_radius, FALSE)
                          \o E_draw_sweat_drops(s, right_x + s.right_eye.width, right_y)
                 ELSE <<>>)

\* roboeyes_2.py _draw_rounded_rect
R2_draw_rounded_rect(x, y, width, height, radius0, top_mod, bottom_mod) ==
    LET radius1 == Min(Min(radius0, RoundDiv(width, 2)), RoundDiv(height, 2))
        top_offset == RoundDiv(height * top_mod, Scale)
        bottom_offset == RoundDiv(height * bottom_mod, Scale)
        eff_height == height - top_offset - bottom_offset
        y_top == y + top_offset
        radius == Min(Min(radius1, RoundDiv(eff_height, 2)), RoundDiv(width, 2))
    IN  IF eff_height < 2 * Scale THEN <<>>
        ELSE IF top_mod > Scale \div 100 \/ bottom_mod > Scale \div 100
        THEN << Prim("polygon", "eye",
                     Min(Min(x, x + radius), Min(x + width, x + width - radius)),
                     Min(Min(y_top, y_top + radius),
                         Min(y_top + eff_height, y_top + eff_height - radius)),
                     Max(Max(x, x + radius), Max(x + width, x + width - radius)),
                     Max(Max(y_top, y_top + radius),
                         Max(y_top + eff_height, y_top + eff_height - radius)), 0),
                Prim("ellipse", "eye", x, y_top, x + radius * 2, y_top + radius * 2, 0),
                Prim("ellipse", "eye", x + width - radius * 2, y_top, x + width,
                     y_top + radius * 2, 0),
                Prim("ellipse", "eye", x + width - radius * 2,
                     y_top + eff_height - radius * 2, x + width, y_top + eff_height, 0),
                Prim("ellipse", "eye", x, y_top + eff_height - radius * 2,
                     x + radius * 2, y_top + eff_height, 0),
                Prim("rectangle", "eye", x + radius, y_top, x + width - radius,
                     y_top + eff_height, 0),
                Prim("rectangle", "eye", x, y_top + radius, x + width,
                     y_top + eff_height - radius, 0) >>
        ELSE << Prim("rounded_rectangle", "eye", x, y_top, x + width,
                     y_top + eff_height, radius) >>

\* the draw calls of roboeyes_2.py update() on the state s it leaves (the
\* sweat drop already moved by _draw_sweat_drop)
R2_render(s, fx, fy) ==
    LET st == s.state
        center_x == (s.width * Scale) \div 2
        center_y == (s.height * Scale) \div 2
        offset_x == st.x_offset + fx * Scale
        offset_y == st.y_offset + fy * Scale
        left_h == RoundDiv(st.left_height * st.left_open, Scale)
        right_h == RoundDiv(st.right_height * st.right_open, Scale)
        total_width == st.left_width + s.space_between + st.right_width
        start_x == center_x - RoundDiv(total_width, 2) + offset_x
        right_x == start_x + st.left_width + s.space_between
        sweat_x == right_x + st.right_width + 10 * Scale
        drop_y == center_y - RoundDiv(st.right_height, 2) - 20 * Scale + offset_y
                      + s.sweat_y
    IN  IF s.cyclops_mode
        THEN R2_draw_rounded_rect(center_x - RoundDiv(st.left_width, 2) + offset_x,
                                  center_y - RoundDiv(left_h, 2) + offset_y,
                                  st.left_width, left_h, st.left_radius,
                                  st.left_top_mod, st.left_bottom_mod)
        ELSE (IF left_h > Scale
              THEN R2_draw_rounded_rect(start_x, center_y - RoundDiv(left_h, 2) + offset_y,
                                        st.left_width, left_h, st.left_radius,
                                        st.left_top_mod, st.left_bottom_mod)
              ELSE <<>>)
             \o (IF right_h > Scale
                 THEN R2_draw_rounded_rect(right_x,
                                           center_y - RoundDiv(right_h, 2) + offset_y,
                                           st.right_width, right_h, st.right_radius,
                                           st.right_top_mod, st.right_bottom_mod)
                 ELSE <<>>)
             \o (IF s.sweat_enabled /\ s.sweat_visible
                 THEN << Prim("ellipse", "sweat", sweat_x - 4 * Scale, drop_y,
                              sweat_x + 4 * Scale, drop_y + 8 * Scale, 0),
                         Prim("polygon", "sweat", sweat_x - 4 * Scale,
                              drop_y - 6 * Scale, sweat_x + 4 * Scale,
                              drop_y + 2 * Scale, 0) >>
                 ELSE <<>>)

---------------------------------------------------------------------------
(* Display sinks.  class names the sink: "display" is WaveshareDisplay of   *)
(* src/roboeyes/display.py, "waveshare_display" the one of                  *)
(* src/waveshare_display.py, "samloop24" is Waveshare24Display, "mock" and  *)
(* "preview" are MockDisplay and PreviewDisplay of display.py.  lcd tells   *)
(* whether __init__ got as far as assigning self.lcd; duties is the list of *)
(* the values handed to lcd.bl_DutyCycle, exits the number of calls of      *)
(* lcd.module_exit; name, arg and raised describe the last call on the      *)
(* sink; finalized is set once __del__ has run.                             *)

HardwareSinks == {"display", "waveshare_display", "samloop24"}
SinkClasses == HardwareSinks \cup {"mock", "preview"}

\* __init__(backlight=...) that found the driver library
Sink_init(class, backlight) ==
    [class |-> class, lcd |-> class \in HardwareSinks,
     duties |-> IF class \in HardwareSinks THEN <<backlight>> ELSE <<>>,
     exits |-> 0, name |-> "__init__", arg |-> backlight, raised |-> FALSE,
     finalized |-> FALSE]

\* __init__ of a hardware sink that raised ImportError before self.lcd
\* was assigned; only __del__ is ever called on the object
Sink_init_failed(class) ==
    [class |-> class, lcd |-> FALSE, duties |-> <<>>, exits |-> 0,
     name |-> "__init__", arg |-> 0, raised |-> TRUE, finalized |-> FALSE]

MockDisplay == Sink_init("mock", 0)

\* max(0, min(100, value))
Clamp100(value) == Max(0, Min(100, value))

\* set_backlight(value)
Sink_set_backlight(d, value) ==
    LET handed == IF d.class = "waveshare_display" THEN value ELSE Clamp100(value)
    IN  [d EXCEPT !.name = "set_backlight", !.arg = value, !.raised = FALSE,
                  !.duties = IF d.class \in HardwareSinks THEN Append(@, handed)
                             ELSE @]

\* self.lcd.module_exit() raises: AttributeError when there is no self.lcd,
\* or the driver's own error (fails)
Sink_exit_raises(d, fails) == ~d.lcd \/ fails

\* the sink with one more call of the driver's module_exit
Sink_exited(d) == [d EXCEPT !.exits = IF d.lcd THEN @ + 1 ELSE @]

\* cleanup(): only waveshare_display.py lets the error of module_exit out
Sink_cleanup(d, fails) ==
    IF d.class \notin HardwareSinks
    THEN [d EXCEPT !.name = "cleanup", !.arg = 0, !.raised = FALSE]
    ELSE [Sink_exited(d) EXCEPT
              !.name = "cleanup", !.arg = 0,
              !.raised = d.class = "waveshare_display" /\ Sink_exit_raises(d, fails)]

\* __del__(): calls cleanup(); waveshare_display.py swallows what it raises
Sink_del(d, fails) ==
    IF d.class \notin HardwareSinks
    THEN [d EXCEPT !.name = "__del__", !.arg = 0, !.raised = FALSE,
                   !.finalized = TRUE]
    ELSE [Sink_exited(d) EXCEPT !.name = "__del__", !.arg = 0, !.raised = FALSE,
                                !.finalized = TRUE]

---------------------------------------------------------------------------
(* The state machine: a caller constructs one engine and then calls its     *)
(* methods; every call is one action.  Caller operations take no time;     *)
(* update() waits for its pacing point, advances the state and draws.      *)

FrameRates == {10, 20}               \* frame_rate values: 2 or 1 ticks a frame
InitDraws == {0}                     \* the constructor's draws (no operation
                                     \* reads the two times they schedule)
Intervals == {0, 12}                 \* interval arguments, in ticks
Variations == {4}                    \* variation arguments, in ticks
Durations == {0, 4, 10}              \* duration arguments, in ticks
Choices == {"DEFAULT", "SE"}         \* the draws of random.choice(positions)
Amplitudes == {-1, 0, 2}             \* flicker amplitudes, in pixels
FlickerRange == -2..2                \* the draws of random.randint(-a, a)
Screens == {<<240, 320>>, <<128, 64>>}   \* screen width and height, in pixels
Sizes == {-8 * Scale, 0, 50 * Scale, 120 * Scale}   \* widths, heights, spaces
Radii == {-5 * Scale, 0, 8 * Scale, 200 * Scale}    \* corner radii
\* direction names: aliases in lower, upper and mixed case, an alias with
\* blanks around it, the empty string, and names that are no alias
Names ==
    { <<"e", "a", "s", "t">>, <<"E", "A", "S", "T">>, <<"U", "p">>, <<"n", "w">>,
      <<" ", "l", "e", "f", "t", " ">>, <<" ", "S">>, <<>>, <<"c", "e", "n", "t", "r", "e">>,
      <<"D", "e", "f", "a", "u", "l", "t">>, <<"w", " ">>, <<"x">> }
SweatDraws == {0, 10 * Scale}        \* the draws of random.uniform(0, 10)

IsE == impl = "eyes"

\* the record of an operation: its name and arguments, the clock when it was
\* entered, its pacing point t (update() only), whether it raised, the times
\* the latest and the one-before-latest update() returned (-1: none), the
\* number of update() calls since the latest caller operation, and that
\* caller operation's name; whether this update() started an automatic blink
\* (fired) and whether it rescheduled idle mode, which it does when idle mode
\* sets the gaze target (idled); the pacing points of the latest and the
\* one-before-latest update() that started an automatic blink (-1: none); the
\* two draws of random.randint the latest update() made for the flicker; the
\* mood before the latest set_mood()
BlinkStarted(before, after) ==
    IF IsE THEN after.is_blinking /\ ~before.is_blinking
    ELSE /\ after.animating /\ ~before.animating
         /\ after.animation_func.kind = "blink"

OpRec(name, args, t, raised, ret) ==
    [name |-> name, args |-> args, entered |-> clock, t |-> t, raised |-> raised,
     call |-> IF name = "update" THEN op.call ELSE name,
     flicker |-> <<0, 0>>,
     fired |-> name = "update" /\ BlinkStarted(eyes, eyes'),
     idled |-> name = "update" /\ eyes'.next_idle_time # eyes.next_idle_time,
     auto_at |-> IF name = "update" /\ BlinkStarted(eyes, eyes') THEN t
                 ELSE op.auto_at,
     auto_prev |-> IF name = "update" /\ BlinkStarted(eyes, eyes') THEN op.auto_at
                   ELSE op.auto_prev,
     upd_ret |-> IF name = "update" THEN ret ELSE op.upd_ret,
     prev_upd_ret |-> IF name = "update" THEN op.upd_ret ELSE op.prev_upd_ret,
     streak |-> IF name = "update" THEN op.streak + 1 ELSE 0,
     mood_was |-> IF name = "set_mood" THEN eyes.mood ELSE op.mood_was]

\* the engine is constructed for one of the given screens
EngineInit(impls, rates, screens) ==
    /\ impl \in impls
    /\ clock = Epoch
    /\ \E fps \in rates, ub \in InitDraws, ui \in InitDraws, scr \in screens :
          eyes = IF impl = "eyes" THEN E_init(scr[1], scr[2], fps, Epoch, ub, ui)
                 ELSE R2_init(scr[1], scr[2], fps, Epoch, ub, ui)
    /\ op = [name |-> "init", args |-> <<>>, entered |-> Epoch, t |-> Epoch,
             raised |-> FALSE, call |-> "init", flicker |-> <<0, 0>>,
             fired |-> FALSE, idled |-> FALSE,
             auto_at |-> -1, auto_prev |-> -1, upd_ret |-> -1,
             prev_upd_ret |-> -1, streak |-> 0, mood_was |-> "DEFAULT"]
    /\ pre = eyes
    /\ anchor = eyes
    /\ ncalls = 0

\* the engine draws into a sink that has no hardware behind it
InitOn(impls, rates, screens) ==
    /\ EngineInit(impls, rates, screens)
    /\ sink = MockDisplay

\* the default screen, 240 x 320
InitWith(impls, rates) == InitOn(impls, rates, {<<240, 320>>})

Init == InitWith({"eyes", "roboeyes_2"}, FrameRates)

\* a caller operation: the engine becomes e (eyes.py) or r (roboeyes_2.py)
Call(name, args, e, r) ==
    /\ ncalls < MaxCalls
    /\ clock < Epoch + CallWindow
    /\ ncalls' = ncalls + 1
    /\ eyes' = IF IsE THEN e ELSE r
    /\ op' = OpRec(name, args, clock, FALSE, clock)
    /\ pre' = eyes
    /\ anchor' = eyes'
    /\ UNCHANGED <<impl, clock, sink>>

FrameInterval == IF IsE THEN eyes.frame_interval ELSE eyes.frame_time

BlinkDue(t) == IF IsE THEN E_blink_due(eyes, t) ELSE R2_blink_due(eyes, t)

\* idle mode fires in the tick at t (an automatic blink of the same tick
\* starts an animation, which in roboeyes_2.py holds idle mode back)
IdleDue(t) == IF IsE THEN E_idle_due(eyes, t)
              ELSE R2_idle_due(eyes, t) /\ ~R2_blink_due(eyes, t)

\* update(): d ticks are spent drawing after the pacing point, the sleep
\* oversleeps by j ticks; ub, ui, p are the random draws of the tick, fx, fy
\* the flicker's and sw the sweat drops'; the call returns by Epoch + horizon
\* draws that ignore the amplitude
FlickerDraws_wide(enabled, amplitude) ==
    IF enabled /\ amplitude >= 0 THEN FlickerRange ELSE {0}

FlickerDraws(enabled, amplitude) ==
    IF enabled /\ amplitude >= 0 THEN FlickerRange \cap (-amplitude..amplitude)
    ELSE {0}

\* the draws drop i of eyes.py takes: one of SweatDraws if it is reset
SweatDrawsOf(i) == IF IsE /\ E_sweat_resets(eyes, i) THEN SweatDraws ELSE {0}

UpdateWith(ds, js, horizon) ==
    LET raises == IF IsE THEN E_update_raises(eyes) ELSE R2_update_raises(eyes)
        late == clock - eyes.last_frame_time >= FrameInterval
    IN  \E d \in IF raises THEN {0} ELSE ds, j \in IF late THEN {0} ELSE js :
        LET t == PacingPoint(eyes.last_frame_time, FrameInterval, clock, j)
            ret == t + d
        IN  \E ub \in IF BlinkDue(t) THEN UnitDraws ELSE {0},
               ui \in IF IdleDue(t) THEN UnitDraws ELSE {0},
               p \in IF IdleDue(t) THEN Choices ELSE {"DEFAULT"},
               fx \in FlickerDraws(eyes.h_flicker /\ ~raises, eyes.h_flicker_amplitude),
               fy \in FlickerDraws(eyes.v_flicker /\ ~raises, eyes.v_flicker_amplitude),
               s1 \in SweatDrawsOf(1), s2 \in SweatDrawsOf(2), s3 \in SweatDrawsOf(3) :
            /\ ret <= Epoch + horizon
            /\ eyes' = IF IsE THEN E_update(eyes, t, ub, ui, p, <<s1, s2, s3>>)
                       ELSE R2_update(eyes, t, ub, ui, p)
            /\ clock' = ret
            /\ op' = [OpRec("update", <<>>, t, raises, ret)
                         EXCEPT !.flicker = <<fx, fy>>]
            /\ pre' = eyes
            /\ UNCHANGED <<impl, anchor, ncalls, sink>>

\* update() with any drawing time and any oversleep within the bounds
Update == UpdateWith(0..MaxRender, 0..MaxJitter, MaxTime)

\* update() called in a tight loop that draws within the tick and wakes on time
Frame == UpdateWith({0}, {0}, MaxTime)

\* the same tight loop, kept running until every blend has come to rest
Settle == UpdateWith({0}, {0}, MaxSettle)

SetFrameRate ==
    /\ IsE
    /\ \E fps \in FrameRates :
          Call("set_frame_rate", <<fps>>, E_set_frame_rate(eyes, fps), eyes)

SetMood ==
    \E m \in Moods :
        Call("set_mood", <<m>>, E_set_mood(eyes, m), R2_set_mood(eyes, m))

SetPosition ==
    \E p \in Positions :
        Call("set_position", <<p>>, E_set_position(eyes, p), R2_set_position(eyes, p))

Open ==
    \E l \in BOOLEAN, r \in BOOLEAN :
        Call("open", <<l, r>>, E_open(eyes, l, r), R2_open(eyes, l, r))

Close ==
    \E l \in BOOLEAN, r \in BOOLEAN :
        Call("close", <<l, r>>, E_close(eyes, l, r), R2_close(eyes, l, r))

Blink ==
    Call("blink", <<TRUE, TRUE>>, E_blink(eyes, clock, TRUE, TRUE),
         R2_blink(eyes, clock, TRUE, TRUE))

WinkLeft ==
    Call("wink_left", <<>>, E_wink_left(eyes, clock), R2_wink_left(eyes, clock))

WinkRight ==
    Call("wink_right", <<>>, E_wink_right(eyes, clock), R2_wink_right(eyes, clock))

\* set_autoblinker() of eyes.py, set_autoblink() of roboeyes_2.py
SetAutoblinker ==
    \E en \in BOOLEAN, i \in Intervals, v \in Variations, u \in UnitDraws :
        /\ (~en \/ v = 0) => u = 0
        /\ Call("set_autoblinker", <<en, i, v>>,
                E_set_autoblinker(eyes, clock, en, i, v, u),
                R2_set_autoblink(eyes, clock, en, i, v, u))

SetIdleMode ==
    \E en \in BOOLEAN, i \in Intervals, v \in Variations, u \in UnitDraws :
        /\ (~en \/ v = 0) => u = 0
        /\ Call("set_idle_mode", <<en, i, v>>,
                E_set_idle_mode(eyes, clock, en, i, v, u),
                R2_set_idle_mode(eyes, clock, en, i, v, u))

AnimConfused ==
    \E d \in Durations :
        Call("anim_confused", <<d>>, E_anim_confused(eyes, clock, d),
             R2_anim_confused(eyes, clock, d))

AnimLaugh ==
    \E d \in Durations :
        Call("anim_laugh", <<d>>, E_anim_laugh(eyes, clock, d),
             R2_anim_laugh(eyes, clock, d))

SetCuriosity ==
    \E en \in BOOLEAN :
        Call("set_curiosity", <<en>>, E_set_curiosity(eyes, en),
             R2_set_curiosity(eyes, en))

\* set_curiosity(False) at any time of the run, while curiosity mode is on
SetCuriosityOff ==
    /\ IF IsE THEN eyes.curious ELSE eyes.curiosity_mode
    /\ clock < Epoch + MaxTime
    /\ eyes' = IF IsE THEN E_set_curiosity(eyes, FALSE)
               ELSE R2_set_curiosity(eyes, FALSE)
    /\ op' = OpRec("set_curiosity", <<FALSE>>, clock, FALSE, clock)
    /\ pre' = eyes
    /\ anchor' = eyes'
    /\ UNCHANGED <<impl, clock, ncalls, sink>>

SetCyclops ==
    \E en \in BOOLEAN :
        Call("set_cyclops", <<en>>, E_set_cyclops(eyes, en), R2_set_cyclops(eyes, en))

SetWidth ==
    \E l \in Sizes, r \in Sizes :
        Call("set_width", <<l, r>>, E_set_width(eyes, l, r), R2_set_width(eyes, l, r))

SetHeight ==
    \E l \in Sizes, r \in Sizes :
        Call("set_height", <<l, r>>, E_set_height(eyes, l, r),
             R2_set_height(eyes, l, r))

SetBorderRadius ==
    \E l \in Radii, r \in Radii :
        Call("set_border_radius", <<l, r>>, E_set_border_radius(eyes, l, r),
             R2_set_border_radius(eyes, l, r))

SetSpaceBetween ==
    \E sp \in Sizes :
        Call("set_space_between", <<sp>>, E_set_space_between(eyes, sp),
             R2_set_space_between(eyes, sp))

Look ==
    \E name \in Names :
        Call("look", <<name>>, E_look(eyes, name), R2_look(eyes, name))

SetHFlicker ==
    \E en \in BOOLEAN, a \in Amplitudes :
        Call("set_h_flicker", <<en, a>>, E_set_h_flicker(eyes, en, a),
             R2_set_h_flicker(eyes, en, a))

SetVFlicker ==
    \E en \in BOOLEAN, a \in Amplitudes :
        Call("set_v_flicker", <<en, a>>, E_set_v_flicker(eyes, en, a),
             R2_set_v_flicker(eyes, en, a))

SetSweat ==
    \E en \in BOOLEAN :
        Call("set_sweat", <<en>>, E_set_sweat(eyes, en), R2_set_sweat(eyes, en))

\* The calls on a display sink.  The driver's module_exit can fail once the
\* hardware has been released.
Backlights == {-20, 0, 50, 100, 150}

EngineVars == <<impl, eyes, clock, op, pre, anchor, ncalls>>

ExitFails == IF sink.exits > 0 THEN BOOLEAN ELSE {FALSE}

SinkCallable ==
    /\ ~sink.finalized /\ ~(sink.name = "__init__" /\ sink.raised)
    /\ sink.exits + Len(sink.duties) < MaxSinkCalls

SinkSetBacklight ==
    /\ SinkCallable
    /\ \E value \in Backlights : sink' = Sink_set_backlight(sink, value)
    /\ UNCHANGED EngineVars

SinkCleanup ==
    /\ SinkCallable
    /\ \E fails \in ExitFails : sink' = Sink_cleanup(sink, fails)
    /\ UNCHANGED EngineVars

SinkDel ==
    /\ ~sink.finalized
    /\ \E fails \in ExitFails : sink' = Sink_del(sink, fails)
    /\ UNCHANGED EngineVars

NextSink ==
    \/ SinkSetBacklight
    \/ SinkCleanup
    \/ SinkDel

\* a sink of any class is constructed, or its construction fails, beside a
\* default engine
InitSink ==
    /\ EngineInit({"eyes"}, {20}, {<<240, 320>>})
    /\ \/ \E class \in SinkClasses, backlight \in Backlights :
              sink = Sink_init(class, backlight)
       \/ \E class \in HardwareSinks : sink = Sink_init_failed(class)

SpecSink == InitSink /\ [][NextSink]_vars

\* Sink construction by create_eyes() of roboeyes_2.py and by run_demo() of
\* demo.py.  A driver's construction ends in one of Outcomes: it returns, it
\* raises ImportError (the library is missing) or it raises another
\* Exception (the library is there, the hardware is not).  The sink records
\* of this part carry the function that made them (made_by), its
\* display_type and the outcomes of the drivers it tried; raised tells that
\* the function itself raised.  "st7789", "luma" and "mock2" are
\* ST7789Display, LumaDisplay and MockDisplay of roboeyes_2.py.
Outcomes == {"ok", "ImportError", "Exception"}
DisplayTypes == {"auto", "st7789", "luma", "mock"}
DemoDisplayTypes == {"waveshare", "mock"}

Made(class, by, display_type, outcomes, raised) ==
    [class |-> class, lcd |-> class \in HardwareSinks,
     duties |-> IF class \in HardwareSinks THEN <<50>> ELSE <<>>,
     exits |-> 0, name |-> by, arg |-> 0, raised |-> raised, finalized |-> FALSE,
     made_by |-> by, display_type |-> display_type, outcomes |-> outcomes]

NoSink == Made("none", "none", "none", <<>>, FALSE)

\* create_eyes(display_type); st and lu are the outcomes of constructing
\* ST7789Display and LumaDisplay
R2_create_eyes(display_type, st, lu) ==
    IF display_type = "auto"
    THEN IF st = "ok" THEN Made("st7789", "create_eyes", display_type, <<st>>, FALSE)
         ELSE IF lu = "ok"
         THEN Made("luma", "create_eyes", display_type, <<st, lu>>, FALSE)
         ELSE Made("mock2", "create_eyes", display_type, <<st, lu>>, FALSE)
    ELSE IF display_type = "st7789"
    THEN Made(IF st = "ok" THEN "st7789" ELSE "none", "create_eyes", display_type,
              <<st>>, st # "ok")
    ELSE IF display_type = "luma"
    THEN Made(IF lu = "ok" THEN "luma" ELSE "none", "create_eyes", display_type,
              <<lu>>, lu # "ok")
    ELSE Made("mock2", "create_eyes", display_type, <<>>, FALSE)

\* the sink construction of run_demo(display_type); ws is the outcome of
\* constructing WaveshareDisplay
Demo_display(display_type, ws) ==
    IF display_type = "waveshare"
    THEN IF ws = "ok" THEN Made("display", "run_demo", display_type, <<ws>>, FALSE)
         ELSE IF ws = "ImportError"
         THEN Made("mock", "run_demo", display_type, <<ws>>, FALSE)
         ELSE Made("none", "run_demo", display_type, <<ws>>, TRUE)
    ELSE Made("mock", "run_demo", display_type, <<>>, FALSE)

CreateEyes ==
    /\ sink.made_by = "none"
    /\ \E display_type \in DisplayTypes, st \in Outcomes, lu \in Outcomes :
           sink' = R2_create_eyes(display_type, st, lu)
    /\ UNCHANGED EngineVars

RunDemo ==
    /\ sink.made_by = "none"
    /\ \E display_type \in DemoDisplayTypes, ws \in Outcomes :
           sink' = Demo_display(display_type, ws)
    /\ UNCHANGED EngineVars

\* display.show(frame) with the frame update() has just returned
SinkShow ==
    /\ sink.made_by # "none" /\ ~sink.raised /\ sink.name # "show"
    /\ op.name = "update" /\ ~op.raised
    /\ sink' = [sink EXCEPT !.name = "show"]
    /\ UNCHANGED EngineVars

NextFactory ==
    \/ CreateEyes
    \/ RunDemo
    \/ Frame
    \/ SinkShow

InitFactory ==
    /\ EngineInit({"eyes", "roboeyes_2"}, {20}, {<<240, 320>>})
    /\ sink = NoSink

SpecFactory == InitFactory /\ [][NextFactory]_vars

\* Every operation, with update() at any pace.
Next ==
    \/ Update
    \/ SetFrameRate
    \/ SetMood
    \/ SetPosition
    \/ Open
    \/ Close
    \/ Blink
    \/ WinkLeft
    \/ WinkRight
    \/ SetAutoblinker
    \/ SetIdleMode
    \/ AnimConfused
    \/ AnimLaugh
    \/ SetCuriosity
    \/ SetCyclops
    \/ SetWidth
    \/ SetHeight
    \/ SetBorderRadius
    \/ SetSpaceBetween
    \/ Look
    \/ SetHFlicker
    \/ SetVFlicker
    \/ SetSweat

Spec == Init /\ [][Next]_vars

\* Frame pacing: update() at any pace, and the frame rate setter.
NextPace ==
    \/ Update
    \/ SetFrameRate

SpecPace == Init /\ [][NextPace]_vars

\* Eyelids: open, close, blink and wink between frames.
NextLids ==
    \/ Frame
    \/ Open
    \/ Close
    \/ Blink
    \/ WinkLeft
    \/ WinkRight

SpecLids == Init /\ [][NextLids]_vars

\* Automatic behaviours and reaction animations between frames.
NextAuto ==
    \/ Frame
    \/ SetAutoblinker
    \/ SetIdleMode
    \/ Blink
    \/ AnimConfused
    \/ AnimLaugh

SpecAuto == Init /\ [][NextAuto]_vars

\* Blinks: the autoblinker, manual blinks and winks, and close() between
\* frames.
NextBlinks ==
    \/ Frame
    \/ SetAutoblinker
    \/ Blink
    \/ WinkLeft
    \/ WinkRight
    \/ Close

SpecBlinks == Init /\ [][NextBlinks]_vars

\* Lids and moods between frames.
NextRange ==
    \/ Frame
    \/ Open
    \/ Close
    \/ Blink
    \/ WinkLeft
    \/ WinkRight
    \/ SetMood

SpecRange == Init /\ [][NextRange]_vars

\* Feature flags, with a mood, a gaze and closed lids, between frames.
NextFlags ==
    \/ Frame
    \/ SetCyclops
    \/ SetCuriosity
    \/ SetHFlicker
    \/ SetVFlicker
    \/ SetSweat
    \/ SetMood
    \/ SetPosition
    \/ Close

SpecFlags == InitWith({"eyes", "roboeyes_2"}, {20}) /\ [][NextFlags]_vars

\* Blending: gaze, mood, lids and curiosity targets between frames.
NextBlend ==
    \/ Settle
    \/ SetPosition
    \/ SetMood
    \/ Close
    \/ Open
    \/ SetCuriosity
    \/ Blink
    \/ AnimConfused

SpecBlend == InitWith({"eyes", "roboeyes_2"}, {20}) /\ [][NextBlend]_vars

\* Drawing: cyclops mode, sweat, flicker, lids, moods and the geometry
\* setters between frames.
NextDraw ==
    \/ Frame
    \/ SetCyclops
    \/ SetSweat
    \/ SetHFlicker
    \/ Close
    \/ Blink
    \/ SetMood
    \/ SetWidth
    \/ SetHeight
    \/ SetBorderRadius
    \/ AnimConfused

SpecDraw == InitWith({"eyes", "roboeyes_2"}, {20}) /\ [][NextDraw]_vars

\* Curiosity: curiosity mode, gaze, the confused shake and the size setters
\* between frames.
NextCurious ==
    \/ Frame
    \/ SetCuriosity
    \/ SetPosition
    \/ AnimConfused
    \/ SetWidth
    \/ SetHeight
    \/ SetBorderRadius

SpecCurious == InitWith({"eyes", "roboeyes_2"}, {20}) /\ [][NextCurious]_vars

\* The steps of a tick: the automatic behaviours, blinks and the sweat drops
\* between frames.
NextTick ==
    \/ Frame
    \/ SetAutoblinker
    \/ SetIdleMode
    \/ SetSweat
    \/ Blink

SpecTick == Init /\ [][NextTick]_vars

\* Curiosity mode switched on, the gaze moved, and curiosity mode switched
\* off again at any later time.
NextRestore ==
    \/ Frame
    \/ SetCuriosity
    \/ SetPosition
    \/ SetCuriosityOff

SpecRestore == InitWith({"eyes", "roboeyes_2"}, {20}) /\ [][NextRestore]_vars

\* Layout: the geometry setters, the moods and cyclops mode between frames,
\* with the gaze at the centre.
NextLayout ==
    \/ Frame
    \/ SetWidth
    \/ SetHeight
    \/ SetSpaceBetween
    \/ SetMood
    \/ SetCyclops

SpecLayout == InitWith({"eyes", "roboeyes_2"}, {20}) /\ [][NextLayout]_vars

\* Gaze: the geometry setters, set_position() and look() on either screen,
\* and update() in a tight loop.
NextGaze ==
    \/ Frame
    \/ SetWidth
    \/ SetHeight
    \/ SetSpaceBetween
    \/ SetPosition
    \/ Look

SpecGaze == InitOn({"eyes", "roboeyes_2"}, {20}, Screens) /\ [][NextGaze]_vars

---------------------------------------------------------------------------
(* Frame pacing *)

\* a second or later update() has just returned
LaterUpdate == op.name = "update" /\ op.prev_upd_ret >= 0

\* C1, as stated: with a fixed frame rate and any drawing times, no update()
\* returns sooner than one frame interval after the previous update() returned.
C1_ReturnSpacing ==
    (LaterUpdate /\ ncalls = 0) => op.upd_ret - op.prev_upd_ret >= FrameInterval

\* C1, amended: no update() passes its pacing point (the time it records in
\* last_frame_time after the wait), and so none returns, sooner than one
\* frame interval after the pacing point of the previous update().
C1_PacingSpacing ==
    LaterUpdate =>
        /\ op.t - pre.last_frame_time >= FrameInterval
        /\ eyes.last_frame_time = op.t
        /\ op.upd_ret >= op.t

\* a later update() that had to wait, and returned less than one interval
\* after the previous return
C1_Witness ==
    /\ LaterUpdate
    /\ op.t > op.entered
    /\ op.t - pre.last_frame_time = FrameInterval
    /\ op.upd_ret - op.prev_upd_ret < FrameInterval

---------------------------------------------------------------------------
(* Reaction animations and the fields they own *)

UpdateDone == op.name = "update" /\ ~op.raised

\* eyes.py after a tick at time t: every field owned by an animation that is
\* still running holds the animation's curve value
E_OwnedFieldsOnCurve(s, t) ==
    /\ (s.is_blinking /\ s.blink_left) =>
           s.left_open = BlinkCurve(t - s.blink_start_time, s.blink_duration)
    /\ (s.is_blinking /\ s.blink_right) =>
           s.right_open = BlinkCurve(t - s.blink_start_time, s.blink_duration)
    /\ s.confused =>
           s.x = s.x_next + Shake(t - s.confused_start_time, s.confused_duration, 8, 15)
    /\ s.laugh =>
           s.y = s.y_next + Shake(t - s.laugh_start_time, s.laugh_duration, 10, 8)

\* the same for roboeyes_2.py, whose one animation slot holds the animation
R2_OwnedFieldsOnCurve(s, t) ==
    LET f == s.animation_func
        e == t - s.animation_start_time
        d == s.animation_duration
    IN  s.animating =>
          /\ (f.kind = "blink" /\ f.left) => s.state.left_open = BlinkCurve(e, d)
          /\ (f.kind = "blink" /\ f.right) => s.state.right_open = BlinkCurve(e, d)
          /\ f.kind = "confused" =>
                 s.state.x_offset = s.target_x_offset + Shake(e, d, 8, 15)
          /\ f.kind = "laugh" =>
                 s.state.y_offset = s.target_y_offset + Shake(e, d, 10, 8)

\* C2: at the end of every update() tick in which a reaction animation is
\* still running, the field it owns (x for confused, y for laugh, the openness
\* of each blinking eye for blink) holds exactly the animation's curve value:
\* the interpolation step of the tick has not blended it toward its target.
C2_FieldOwnership ==
    UpdateDone => IF IsE THEN E_OwnedFieldsOnCurve(eyes, op.t)
                  ELSE R2_OwnedFieldsOnCurve(eyes, op.t)

\* C2 holds of eyes.py
C2_FieldOwnership_eyes == IsE => C2_FieldOwnership

---------------------------------------------------------------------------
(* Eyelids: blink, wink, open, close *)

BlinkCalls == {"blink", "wink_left", "wink_right"}

\* the eyes a blink call covers
CoversLeft(call) == call \in {"blink", "wink_left"}
CoversRight(call) == call \in {"blink", "wink_right"}

\* openness and open target of one eye of an instance s
LeftOpen(s) == IF IsE THEN s.left_open ELSE s.state.left_open
RightOpen(s) == IF IsE THEN s.right_open ELSE s.state.right_open
LeftTarget(s) == IF IsE THEN s.left_open_next ELSE s.target_left_open
RightTarget(s) == IF IsE THEN s.right_open_next ELSE s.target_right_open

\* a blink is in progress in instance s
BlinkActive(s) ==
    IF IsE THEN s.is_blinking ELSE s.animating /\ s.animation_func.kind = "blink"

\* the latest caller operation was a blink or wink (every frame since then
\* belongs to it or follows it), and an update() has just returned
AfterBlinkCall == UpdateDone /\ op.call \in BlinkCalls

\* the blink or wink of the latest caller operation has completed
BlinkOver == AfterBlinkCall /\ ~BlinkActive(eyes)

\* a tick of the blink window of the latest caller operation
BlinkWindow == AfterBlinkCall /\ BlinkActive(eyes)

Between(a, v, b) == (a <= v /\ v <= b) \/ (b <= v /\ v <= a)

\* C3, as stated: once a blink or wink has completed, each eye's open target
\* equals the target it had immediately before the call.
C3_TargetRestored ==
    BlinkOver => /\ LeftTarget(eyes) = LeftTarget(anchor)
                 /\ RightTarget(eyes) = RightTarget(anchor)

\* C3, amended: once a blink or wink has completed, in roboeyes_2.py each
\* eye's open target equals the target it had before the call; in eyes.py
\* the open target of every eye the blink covered is 1.0, whatever it was
\* before, and the open target of an eye it did not cover is unchanged.
C3_TargetAfterBlink ==
    BlinkOver =>
        /\ LeftTarget(eyes) = IF IsE /\ CoversLeft(op.call) THEN Scale
                              ELSE LeftTarget(anchor)
        /\ RightTarget(eyes) = IF IsE /\ CoversRight(op.call) THEN Scale
                               ELSE RightTarget(anchor)

\* a completed blink in eyes.py of an eye whose open target was 0 before the
\* call: the target is now 1.0
C3_Witness ==
    /\ IsE /\ BlinkOver /\ op.call = "blink"
    /\ LeftTarget(anchor) = 0 /\ LeftTarget(eyes) = Scale

\* the same blink in roboeyes_2.py: the target is still 0
C3_Witness_roboeyes_2 ==
    /\ ~IsE /\ BlinkOver /\ op.call = "blink"
    /\ LeftTarget(anchor) = 0 /\ LeftTarget(eyes) = 0

\* C4, as stated: on every tick of the blink window of a wink, the eye that
\* does not wink stays at its pre-call open target.
C4_OtherEyeAtTarget ==
    BlinkWindow =>
        /\ op.call = "wink_left" => RightOpen(eyes) = RightTarget(anchor)
        /\ op.call = "wink_right" => LeftOpen(eyes) = LeftTarget(anchor)

\* what C4 allows of the eye that does not wink: v0 its openness at the call,
\* p its openness before this tick, v after it, tg its open target.  It is
\* between v0 and tg; eyes.py holds it at v0, roboeyes_2.py blends it on.
OtherEyeOk(v0, p, v, tg) ==
    /\ Between(v0, v, tg)
    /\ IsE => v = v0
    /\ ~IsE => v = R2_lerp(p, tg, eyes.blink_speed)
    /\ v0 = tg => v = tg

\* the blink curve's value at the end of the tick just run
CurveNow ==
    IF IsE THEN BlinkCurve(op.t - eyes.blink_start_time, eyes.blink_duration)
    ELSE BlinkCurve(op.t - eyes.animation_start_time, eyes.animation_duration)

\* what C4 says of the winking eye: v its openness after the tick, tg its
\* open target.  eyes.py leaves the curve value in it, roboeyes_2.py writes
\* the curve value and then blends it once toward the target.
WinkEyeOk(v, tg) ==
    v = IF IsE THEN CurveNow ELSE R2_lerp(CurveNow, tg, eyes.blink_speed)

\* C4, amended: on every tick of the blink window of a wink the blink curve
\* is applied to the winking eye only; the other eye's openness is never
\* set from the curve and stays between its value at the call and its open
\* target: eyes.py holds it at its value at the call, roboeyes_2.py keeps
\* blending it toward the target, so an eye that was at its target at the
\* call stays at the target throughout.
C4_WinkIsolation ==
    BlinkWindow =>
        /\ op.call = "wink_left" =>
              /\ WinkEyeOk(LeftOpen(eyes), LeftTarget(eyes))
              /\ OtherEyeOk(RightOpen(anchor), RightOpen(pre), RightOpen(eyes),
                            RightTarget(eyes))
        /\ op.call = "wink_right" =>
              /\ WinkEyeOk(RightOpen(eyes), RightTarget(eyes))
              /\ OtherEyeOk(LeftOpen(anchor), LeftOpen(pre), LeftOpen(eyes),
                            LeftTarget(eyes))

\* a tick inside the window of a wink_left() called while the right eye was
\* still closing, with the curve below the right eye's openness
C4_Witness ==
    /\ BlinkWindow /\ op.call = "wink_left"
    /\ RightTarget(anchor) = 0 /\ RightOpen(anchor) > 0
    /\ LeftOpen(eyes) < RightOpen(eyes)

---------------------------------------------------------------------------
(* Autonomous behaviours: automatic blink and idle mode *)

AutoblinkEnabled(s) == IF IsE THEN s.autoblinker ELSE s.autoblink_enabled
IdleEnabled(s) == IF IsE THEN s.idle ELSE s.idle_mode

\* a reaction animation of any kind is running in instance s
ReactionActive(s) ==
    IF IsE THEN s.is_blinking \/ s.confused \/ s.laugh ELSE s.animating

\* what holds an automatic blink back in each implementation: a blink in
\* eyes.py, any running animation in roboeyes_2.py
BlinkHeldBack(s) == IF IsE THEN s.is_blinking ELSE s.animating

\* after an automatic blink the next one is scheduled at least 0.5 s later,
\* and the previous one was at least 0.5 s earlier
Rescheduled ==
    op.fired => /\ eyes.next_blink_time >= op.t + HalfSecond
                /\ op.auto_prev >= 0 => op.t - op.auto_prev >= HalfSecond

\* C5, as stated: an update() tick triggers an automatic blink if and only if
\* auto-blink is enabled, no blink is in progress and now >= nextBlinkTime;
\* after firing nextBlinkTime >= now + 0.5 s and two automatic blinks are at
\* least 0.5 s apart.
C5_FiresIffDue ==
    op.name = "update" =>
        /\ op.fired <=> /\ AutoblinkEnabled(pre)
                        /\ ~BlinkActive(pre)
                        /\ op.t >= pre.next_blink_time
        /\ Rescheduled

\* C5, amended: an update() tick triggers an automatic blink if and only if
\* auto-blink is enabled, now >= nextBlinkTime and, in eyes.py, no blink is in
\* progress, in roboeyes_2.py, no animation of any kind (blink, confused,
\* laugh) is in progress; after firing nextBlinkTime >= now + 0.5 s and two
\* automatic blinks are at least 0.5 s apart.
C5_AutoBlinkRule ==
    op.name = "update" =>
        /\ op.fired <=> /\ AutoblinkEnabled(pre)
                        /\ ~BlinkHeldBack(pre)
                        /\ op.t >= pre.next_blink_time
        /\ Rescheduled

\* the second of two automatic blinks, with the smallest delay drawn
C5_Witness ==
    /\ op.name = "update" /\ op.fired /\ op.auto_prev >= 0
    /\ op.t - op.auto_prev = HalfSecond

\* roboeyes_2.py: a due automatic blink held back by a running shake
C5_Witness_held ==
    /\ ~IsE /\ op.name = "update" /\ ~op.fired
    /\ AutoblinkEnabled(pre) /\ op.t >= pre.next_blink_time
    /\ pre.animating /\ pre.animation_func.kind # "blink"

\* C6, as stated: idle mode changes the gaze target on a tick only if idle
\* mode is enabled, now >= nextIdleTime and no reaction animation (blink,
\* confused, laugh) is active; never while a blink is in progress.
C6_IdleOnlyWhenQuiet ==
    (op.name = "update" /\ op.idled) =>
        /\ IdleEnabled(pre)
        /\ op.t >= pre.next_idle_time
        /\ ~ReactionActive(pre)

\* C6, amended: idle mode changes the gaze target on a tick only if idle mode
\* is enabled, now >= nextIdleTime and, in eyes.py, neither the confused nor
\* the laugh animation is active (a blink in progress does not hold it back),
\* in roboeyes_2.py, no animation is active, an automatic blink started in
\* the same tick included; never while idle mode is disabled.
C6_IdleGuard ==
    (op.name = "update" /\ op.idled) =>
        /\ IdleEnabled(pre)
        /\ op.t >= pre.next_idle_time
        /\ IsE => ~pre.confused /\ ~pre.laugh
        /\ ~IsE => ~pre.animating /\ ~op.fired

\* eyes.py: idle mode sets the gaze target during a blink
C6_Witness ==
    IsE /\ op.name = "update" /\ op.idled /\ pre.is_blinking

\* idle mode held back by a running shake although it is due
C6_Witness_held ==
    /\ op.name = "update" /\ ~op.idled
    /\ IdleEnabled(pre) /\ op.t >= pre.next_idle_time
    /\ IF IsE THEN pre.confused \/ pre.laugh ELSE pre.animating

---------------------------------------------------------------------------
(* Interpolation *)

\* one blended field of an instance: its class, value, target and the
\* reaction animation that writes it while running
Field(class, v, tg, owner) == [class |-> class, v |-> v, tg |-> tg, owner |-> owner]

E_GeometryFields(g) ==
    << Field("geometry", g.width, g.width_next, "none"),
       Field("geometry", g.height, g.height_next, "none"),
       Field("geometry", g.border_radius, g.border_radius_next, "none") >>

\* the fields eyes.py tweens in _update_geometry
E_Fields(s) ==
    << Field("gaze", s.x, s.x_next, "confused"),
       Field("gaze", s.y, s.y_next, "laugh"),
       Field("open", s.left_open, s.left_open_next, "blink_left"),
       Field("open", s.right_open, s.right_open_next, "blink_right") >>
    \o E_GeometryFields(s.left_eye) \o E_GeometryFields(s.right_eye)

\* the fields roboeyes_2.py lerps in _update_state
R2_Fields(s) ==
    << Field("gaze", s.state.x_offset, s.target_x_offset, "confused"),
       Field("gaze", s.state.y_offset, s.target_y_offset, "laugh"),
       Field("open", s.state.left_open, s.target_left_open, "blink_left"),
       Field("open", s.state.right_open, s.target_right_open, "blink_right"),
       Field("mod", s.state.left_top_mod, s.target_left_top_mod, "none"),
       Field("mod", s.state.left_bottom_mod, s.target_left_bottom_mod, "none"),
       Field("mod", s.state.right_top_mod, s.target_right_top_mod, "none"),
       Field("mod", s.state.right_bottom_mod, s.target_right_bottom_mod, "none") >>

Fields(s) == IF IsE THEN E_Fields(s) ELSE R2_Fields(s)

\* the reaction animation named owner is running in instance s
AnimRuns(s, owner) ==
    IF owner = "none" THEN FALSE
    ELSE IF IsE
    THEN CASE owner = "confused" -> s.confused
           [] owner = "laugh" -> s.laugh
           [] owner = "blink_left" -> s.is_blinking /\ s.blink_left
           [] owner = "blink_right" -> s.is_blinking /\ s.blink_right
    ELSE /\ s.animating
         /\ CASE owner = "confused" -> s.animation_func.kind = "confused"
              [] owner = "laugh" -> s.animation_func.kind = "laugh"
              [] owner = "blink_left" ->
                     s.animation_func.kind = "blink" /\ s.animation_func.left
              [] owner = "blink_right" ->
                     s.animation_func.kind = "blink" /\ s.animation_func.right

\* field i was the interpolation engine's in the tick just run: no reaction
\* animation wrote it
Blended(i) == UpdateDone /\ ~AnimRuns(pre, Fields(pre)[i].owner)

\* field i was the interpolation engine's and its target did not change
BlendedToFixed(i) == Blended(i) /\ Fields(pre)[i].tg = Fields(eyes)[i].tg

\* distance of field i of instance s from its target
Dist(s, i) == Abs(Fields(s)[i].tg - Fields(s)[i].v)

\* C7, as stated: for every blended field, once |current - target| is below
\* the epsilon the next update() sets the field exactly to the target (and so
\* every further update() leaves it there).
C7_SnapEveryField ==
    \A i \in DOMAIN Fields(eyes) :
        (BlendedToFixed(i) /\ Dist(pre, i) < R2_epsilon) => Dist(eyes, i) = 0

\* the speed of the _lerp that blends a field of the given class
SpeedOf(class) == IF class = "open" THEN eyes.blink_speed ELSE eyes.transition_speed

\* ticks a roboeyes_2.py blend takes at most to bring a distance d to 0: one
\* tick snaps a distance below 0.01 and one tick takes any other distance to
\* at most d x (1 - speed), rounded to the last digit
RECURSIVE SettleTicks(_, _)
SettleTicks(d, speed) ==
    IF d < R2_epsilon THEN 1
    ELSE 1 + SettleTicks((d * (Scale - speed) + Scale \div 2) \div Scale, speed)

\* C7, amended: in roboeyes_2.py, for every field _lerp blends (gaze offsets,
\* openness, mood modifiers), once |current - target| < 0.01 the next
\* update() sets the field exactly to the target, where it stays, and with a
\* fixed target the field reaches the target exactly after finitely many
\* ticks; in eyes.py there is no epsilon: a field that is exactly at its
\* target stays there, one that is near it is not set to it.
C7_SnapWhereLerped ==
    \A i \in DOMAIN Fields(eyes) :
        /\ (BlendedToFixed(i) /\ Dist(pre, i) = 0) => Dist(eyes, i) = 0
        /\ (BlendedToFixed(i) /\ Dist(pre, i) < R2_epsilon /\ ~IsE) =>
               Dist(eyes, i) = 0
        /\ (UpdateDone /\ ~IsE /\ ~ReactionActive(anchor) /\ Dist(eyes, i) > 0) =>
               op.streak < SettleTicks(Dist(anchor, i), SpeedOf(Fields(eyes)[i].class))

\* roboeyes_2.py: a gaze offset that was less than 0.01 from its target
\* before the tick and is at it now, many ticks after a call moved the target
C7_Witness ==
    /\ ~IsE /\ BlendedToFixed(1) /\ ~ReactionActive(anchor)
    /\ Dist(pre, 1) > 0 /\ Dist(pre, 1) < R2_epsilon /\ Dist(eyes, 1) = 0
    /\ Dist(anchor, 1) > 0 /\ op.streak > 30

\* eyes.py: a gaze offset less than 0.01 from its target that an update() has
\* not set to the target
C7_Witness_eyes ==
    /\ IsE /\ BlendedToFixed(1)
    /\ Dist(pre, 1) < R2_epsilon /\ Dist(eyes, 1) > 0

\* C8: in every tick in which the interpolation engine has a field, the
\* value after update() lies between the value before the tick and the
\* target, and while the target is unchanged the distance to the target does
\* not grow.
C8_NoOvershoot ==
    \A i \in DOMAIN Fields(eyes) :
        /\ Blended(i) =>
               Between(Fields(pre)[i].v, Fields(eyes)[i].v, Fields(eyes)[i].tg)
        /\ BlendedToFixed(i) => Dist(eyes, i) <= Dist(pre, i)

\* a tick in which an eye's openness moved toward its target without
\* reaching it while a shake had the gaze
C8_Witness ==
    /\ Blended(3) /\ ~Blended(1)
    /\ Dist(eyes, 3) > 0 /\ Dist(eyes, 3) < Dist(pre, 3)

\* the gaze and mood-modifier fields
SlowFields == {i \in DOMAIN Fields(eyes) : Fields(eyes)[i].class \in {"gaze", "mod"}}

\* n or more update() calls have run since the latest caller operation, with
\* no reaction animation active
Streak(n) == UpdateDone /\ ~ReactionActive(anchor) /\ op.streak >= n

\* field i is within 1% of the distance it had to go after the latest caller
\* operation
WithinOnePercent(i) ==
    IF Dist(anchor, i) = 0 THEN Dist(eyes, i) = 0
    ELSE 100 * Dist(eyes, i) < Dist(anchor, i)

\* C9, as stated: after 28 or more consecutive update() calls every gaze and
\* mood-modifier field is less than 1% of its initial distance from its
\* target.
C9_Within28 == Streak(28) => \A i \in SlowFields : WithinOnePercent(i)

\* C9, amended: after 29 or more consecutive update() calls every gaze and
\* mood-modifier field is less than 1% of its initial distance from its
\* target.
C9_Within29 == Streak(29) => \A i \in SlowFields : WithinOnePercent(i)

\* the 29th update() after a call that left a gaze offset away from its
\* target, in roboeyes_2.py, the offset not yet snapped
C9_Witness ==
    ~IsE /\ Streak(29) /\ op.streak = 29 /\ Dist(eyes, 1) > 0

\* C10, as stated: each update() applies next = current + (target - current)
\* x 0.15 to every gaze and mood-modifier field, so the error is 0.85 of what
\* it was, to the rounding of the last digit.
C10_Rate015 ==
    \A i \in SlowFields :
        BlendedToFixed(i) =>
            Abs(Scale * Dist(eyes, i) - (Scale - R2_transition_speed) * Dist(pre, i))
                <= Scale \div 2

\* C10, amended: in roboeyes_2.py each update() applies next = current +
\* (target - current) x 0.15 to every gaze and mood-modifier field while
\* |target - current| >= 0.01 and sets it to the target otherwise; in eyes.py
\* each update() halves the distance of a gaze offset (there are no
\* mood-modifier fields).
C10_BlendRates ==
    \A i \in SlowFields :
        BlendedToFixed(i) =>
            IF IsE THEN Abs(2 * Dist(eyes, i) - Dist(pre, i)) <= 1
            ELSE IF Dist(pre, i) < R2_epsilon THEN Dist(eyes, i) = 0
            ELSE Abs(Scale * Dist(eyes, i)
                       - (Scale - R2_transition_speed) * Dist(pre, i))
                     <= Scale \div 2

\* roboeyes_2.py: a tick that took a mood modifier 0.15 of the way
C10_Witness ==
    /\ ~IsE /\ BlendedToFixed(5)
    /\ Dist(pre, 5) >= R2_epsilon /\ Dist(eyes, 5) > 0

---------------------------------------------------------------------------
(* Gaze *)

\* the gaze target and the travel budget of instance s
TargetX(s) == IF IsE THEN s.x_next ELSE s.target_x_offset
TargetY(s) == IF IsE THEN s.y_next ELSE s.target_y_offset
MaxX(s) == IF IsE THEN s.max_x ELSE R2_max_x(s)
MaxY(s) == IF IsE THEN s.max_y ELSE R2_max_y(s)

\* set_position(p) has just returned
PositionSet(p) == op.name = "set_position" /\ op.args = <<p>>

\* v is at most 0.8 of the budget m, to the rounding of the last digit
WithinBudget(v, m) == 10 * Abs(v) <= 8 * m + 5

\* C11: after set_position(p) with p other than Default the target offset is
\* at most 0.8 x maxX and 0.8 x maxY in absolute value and not 0 on both
\* axes; after set_position(Default) it is (0, 0).
C11_BoundedGaze ==
    \A p \in Positions :
        PositionSet(p) =>
            IF p = "DEFAULT" THEN TargetX(eyes) = 0 /\ TargetY(eyes) = 0
            ELSE /\ WithinBudget(TargetX(eyes), MaxX(eyes))
                 /\ WithinBudget(TargetY(eyes), MaxY(eyes))
                 /\ TargetX(eyes) # 0 \/ TargetY(eyes) # 0

\* the signs the compass table gives Position p: x > 0 right, y > 0 down
CompassX(p) ==
    CASE p \in {"NE", "E", "SE"} -> 1 [] p \in {"NW", "W", "SW"} -> -1 [] OTHER -> 0
CompassY(p) ==
    CASE p \in {"SW", "S", "SE"} -> 1 [] p \in {"NW", "N", "NE"} -> -1 [] OTHER -> 0

Sign(v) == IF v > 0 THEN 1 ELSE IF v < 0 THEN -1 ELSE 0

\* C12: after set_position(p) the signs of the target follow the compass
\* table.
C12_CompassSigns ==
    \A p \in Positions :
        PositionSet(p) => /\ Sign(TargetX(eyes)) = CompassX(p)
                          /\ Sign(TargetY(eyes)) = CompassY(p)

\* the widths, heights and space the caller has configured
ConfWidth(s) ==
    IF IsE THEN s.left_eye.width_next + s.right_eye.width_next + s.space_between
    ELSE s.left_eye.width + s.right_eye.width + s.space_between
ConfHeight(s) ==
    IF IsE THEN Max(s.left_eye.height_next, s.right_eye.height_next)
    ELSE Max(s.left_eye.height, s.right_eye.height)
ScreenWidth(s) == IF IsE THEN s.screen_width ELSE s.width
ScreenHeight(s) == IF IsE THEN s.screen_height ELSE s.height
Margin == IF IsE THEN 5 * Scale ELSE 10 * Scale

\* the eye pair as update() draws it in two-eye mode with open eyes and no
\* flicker: the left edge of the left eye, the right edge of the right eye,
\* the top and the bottom of the taller eye
PairBox(s) ==
    LET lw == IF IsE THEN s.left_eye.width ELSE s.state.left_width
        rw == IF IsE THEN s.right_eye.width ELSE s.state.right_width
        lh == IF IsE THEN s.left_eye.height ELSE s.state.left_height
        rh == IF IsE THEN s.right_eye.height ELSE s.state.right_height
        ox == IF IsE THEN s.x ELSE s.state.x_offset
        oy == IF IsE THEN s.y ELSE s.state.y_offset
        total_width == lw + s.space_between + rw
        start_x == RoundDiv(ScreenWidth(s) * Scale - total_width, 2) + ox
        top == RoundDiv(ScreenHeight(s) * Scale - Max(lh, rh), 2) + oy
    IN  [x1 |-> start_x, x2 |-> start_x + total_width,
         y1 |-> top, y2 |-> top + Max(lh, rh)]

OnScreen(s) ==
    /\ PairBox(s).x1 >= 0 /\ PairBox(s).x2 <= ScreenWidth(s) * Scale
    /\ PairBox(s).y1 >= 0 /\ PairBox(s).y2 <= ScreenHeight(s) * Scale

\* gaze and geometry have come to rest (eyes.py's tween stops within one
\* unit of the last digit of its target)
AtRest(s) ==
    IF IsE
    THEN /\ Abs(s.x - s.x_next) <= 1 /\ Abs(s.y - s.y_next) <= 1
         /\ \A g \in {s.left_eye, s.right_eye} :
               /\ Abs(g.width - g.width_next) <= 1
               /\ Abs(g.height - g.height_next) <= 1
    ELSE /\ s.state.x_offset = s.target_x_offset
         /\ s.state.y_offset = s.target_y_offset

\* C13: the budget set_position uses is the one the formula gives for the
\* eye sizes configured at the call, so that, set_position being the latest
\* call, the eye pair is on the screen once gaze and geometry are at rest.
C13_BudgetOnScreen ==
    /\ op.name = "set_position" =>
          /\ MaxX(eyes) = RoundDiv(ScreenWidth(eyes) * Scale - ConfWidth(eyes), 2)
                              - Margin
          /\ MaxY(eyes) = RoundDiv(ScreenHeight(eyes) * Scale - ConfHeight(eyes), 2)
                              - Margin
    /\ (UpdateDone /\ op.call = "set_position" /\ AtRest(eyes)) => OnScreen(eyes)

---------------------------------------------------------------------------
(* look() *)

\* two names that differ at most in the case of their letters
SameName(a, b) ==
    /\ Len(a) = Len(b)
    /\ \A i \in 1..Len(a) : LowerChar(a[i]) = LowerChar(b[i])

\* the name without the white space around it
Trimmed(name) ==
    LET inked == {i \in 1..Len(name) : name[i] \notin WhiteSpace}
    IN  IF inked = {} THEN <<>>
        ELSE SubSeq(name, CHOOSE i \in inked : \A k \in inked : i <= k,
                          CHOOSE i \in inked : \A k \in inked : i >= k)

\* the Positions the alias table gives a name, compared without case
AliasOf(name) == {m[2] : m \in {m \in LookMapping : SameName(m[1], name)}}

\* the Position a name stands for: its alias's, Default when it has none
Resolved(name) ==
    IF AliasOf(name) = {} THEN "DEFAULT" ELSE CHOOSE p \in AliasOf(name) : TRUE

\* set_position(p) applied to the engine as it was before the last operation
AsSetPosition(p) ==
    IF IsE THEN E_set_position(pre, p) ELSE R2_set_position(pre, p)

\* C14: look(name) resolves the name through the alias table, ignoring case,
\* and leaves the engine as set_position of that Position would; a name
\* that is no alias, the empty one included, acts as set_position(Default).
C14_LookAsSetPosition ==
    op.name = "look" => eyes = AsSetPosition(Resolved(op.args[1]))

\* C14 as the code has it: eyes.py also drops the white space around the
\* name before it looks it up, roboeyes_2.py does not.
C14_LookResolution ==
    op.name = "look" =>
        eyes = AsSetPosition(Resolved(IF IsE THEN Trimmed(op.args[1])
                                      ELSE op.args[1]))

\* look("EAST") has set an east gaze target; look(" left ") a west one in
\* eyes.py
C14_Witness ==
    /\ op.name = "look" /\ op.args = << <<"E", "A", "S", "T">> >>
    /\ TargetX(eyes) > 0 /\ TargetX(pre) = 0
C14_Witness_trimmed ==
    /\ op.name = "look" /\ op.args = << <<" ", "l", "e", "f", "t", " ">> >>
    /\ IsE /\ TargetX(eyes) < 0 /\ TargetX(pre) = 0

---------------------------------------------------------------------------
(* Moods *)

\* the draw calls of the latest update()
Drawn ==
    IF IsE THEN E_render(eyes, op.flicker[1], op.flicker[2])
    ELSE R2_render(eyes, op.flicker[1], op.flicker[2])

MoodParts == {"tired", "angry", "happy"}

\* eyes.py: the first eye of a frame was drawn at least 20 pixels high
TallEyeDrawn(frame) ==
    /\ frame # <<>> /\ frame[1].part = "eye"
    /\ frame[1].y2 - frame[1].y1 >= 20 * Scale

\* eyes.py: the heights of the lid drawn over the top and of the lid drawn
\* over the bottom of the first eye of a frame
E_Lids(frame) ==
    IF Len(frame) < 2 \/ frame[2].part \notin MoodParts THEN <<0, 0>>
    ELSE IF frame[2].part = "happy" THEN <<0, frame[1].y2 - frame[2].y1>>
    ELSE <<frame[2].y2 - frame[1].y1, 0>>

\* eyes.py: the lids of a mood in full on an eye h pixels high
E_FullLids(mood, h) ==
    << IF mood = "TIRED" THEN ((h * 4) \div 10) * Scale
       ELSE IF mood = "ANGRY" THEN ((h * 35) \div 100) * Scale ELSE 0,
       IF mood = "HAPPY" THEN ((h * 4) \div 10) * Scale ELSE 0 >>

StrictlyBetween(a, v, b) == (a < v /\ v < b) \/ (b < v /\ v < a)

\* the first update() after a set_mood() has returned its frame
FirstFrameOfMood == UpdateDone /\ op.call = "set_mood" /\ op.streak = 1

\* set_mood() writes the mood and its targets (eyes.py: its flags) only
OnlyMoodTargetsSet ==
    op.name = "set_mood" =>
        IF IsE
        THEN eyes = [pre EXCEPT !.mood = eyes.mood, !.tired = eyes.tired,
                                !.angry = eyes.angry, !.happy = eyes.happy]
        ELSE eyes = [pre EXCEPT !.mood = eyes.mood,
                                !.target_left_top_mod = eyes.target_left_top_mod,
                                !.target_left_bottom_mod = eyes.target_left_bottom_mod,
                                !.target_right_top_mod = eyes.target_right_top_mod,
                                !.target_right_bottom_mod = eyes.target_right_bottom_mod]

\* roboeyes_2.py: a modifier more than the epsilon from its target moves
\* strictly between where it was and the target
ModsBlend ==
    \A i \in 5..8 :
        Dist(pre, i) > R2_epsilon =>
            StrictlyBetween(Fields(pre)[i].v, Fields(eyes)[i].v, Fields(pre)[i].tg)

\* eyes.py: the lids on the first eye of the frame, in pixels of its height
EyeHeight(frame) == (frame[1].y2 - frame[1].y1) \div Scale

\* C15: set_mood(m) changes only target shape modifiers, and on the first
\* update() after it the rendered mood shape (the current modifiers, or the
\* lids drawn over the eye) lies strictly between the old shape and the new.
C15_MoodNeverSnaps ==
    /\ OnlyMoodTargetsSet
    /\ FirstFrameOfMood =>
          IF IsE
          THEN TallEyeDrawn(Drawn) =>
                  \A k \in 1..2 :
                      LET old == E_FullLids(op.mood_was, EyeHeight(Drawn))[k]
                          new == E_FullLids(eyes.mood, EyeHeight(Drawn))[k]
                      IN  old # new => StrictlyBetween(old, E_Lids(Drawn)[k], new)
          ELSE ModsBlend

\* C15 as the code has it: roboeyes_2.py blends the modifiers; eyes.py has
\* none and draws the lids of the new mood in full on the first frame.
C15_MoodBlendOrLids ==
    /\ OnlyMoodTargetsSet
    /\ FirstFrameOfMood =>
          IF IsE
          THEN TallEyeDrawn(Drawn) =>
                  E_Lids(Drawn) = E_FullLids(eyes.mood, EyeHeight(Drawn))
          ELSE ModsBlend

\* roboeyes_2.py, first frame after set_mood(Happy): the bottom modifier is
\* between 0 and 0.4; eyes.py, first frame after set_mood(Tired): the lid is
\* there in full, 14 of the eye's 36 pixels
C15_Witness ==
    /\ ~IsE /\ FirstFrameOfMood /\ op.mood_was = "DEFAULT" /\ eyes.mood = "HAPPY"
    /\ eyes.state.left_bottom_mod > 0
    /\ eyes.state.left_bottom_mod < eyes.target_left_bottom_mod
C15_Witness_eyes ==
    /\ IsE /\ FirstFrameOfMood /\ op.mood_was = "DEFAULT" /\ eyes.mood = "TIRED"
    /\ TallEyeDrawn(Drawn) /\ E_Lids(Drawn) = <<14 * Scale, 0>>

\* roboeyes_2.py: set_mood(Happy) was the only call on the new engine, and
\* update() has run since
SquintScenario ==
    /\ ~IsE /\ ncalls = 1 /\ op.call = "set_mood" /\ anchor.mood = "HAPPY"
    /\ UpdateDone

SquintTicks == 4 * 10

\* C16: from mood Default with all modifiers 0, after set_mood(Happy) the top
\* modifiers of both eyes are 0 on every tick and after 40 update() calls
\* both bottom modifiers are at the Happy target 0.4 (the residue 0.4 x
\* 0.85^40 is below the resolution, and the snap has made them exact); the
\* left and the right target modifiers are equal in every state.
C16_MoodSquint ==
    /\ SquintScenario =>
          /\ eyes.state.left_top_mod = 0 /\ eyes.state.right_top_mod = 0
          /\ op.streak >= SquintTicks =>
                /\ eyes.state.left_bottom_mod = RoundDiv(4 * Scale, 10)
                /\ eyes.state.right_bottom_mod = RoundDiv(4 * Scale, 10)
    /\ ~IsE => /\ eyes.target_left_top_mod = eyes.target_right_top_mod
               /\ eyes.target_left_bottom_mod = eyes.target_right_bottom_mod

C16_Witness ==
    /\ SquintScenario /\ op.streak = SquintTicks
    /\ pre.state.left_bottom_mod = RoundDiv(4 * Scale, 10)
    /\ eyes.state.right_bottom_mod = RoundDiv(4 * Scale, 10)

\* the moods whose indicator is raised in instance s: a flag in eyes.py, the
\* target modifiers of the mood in roboeyes_2.py
Indicated(s) ==
    IF IsE
    THEN (IF s.tired THEN {"TIRED"} ELSE {}) \cup (IF s.angry THEN {"ANGRY"} ELSE {})
             \cup (IF s.happy THEN {"HAPPY"} ELSE {})
    ELSE LET top == s.target_left_top_mod
             bottom == s.target_left_bottom_mod
             both == /\ s.target_right_top_mod = top
                     /\ s.target_right_bottom_mod = bottom
         IN  (IF both /\ top = RoundDiv(5 * Scale, 10) /\ bottom = 0
              THEN {"TIRED"} ELSE {})
             \cup (IF both /\ top = RoundDiv(35 * Scale, 100) /\ bottom = 0
                   THEN {"ANGRY"} ELSE {})
             \cup (IF both /\ top = 0 /\ bottom = RoundDiv(4 * Scale, 10)
                   THEN {"HAPPY"} ELSE {})
             \cup (IF top # 0 /\ bottom # 0 THEN {"TIRED", "HAPPY"} ELSE {})

\* C17: in every state the indicators are those of one mood, the one most
\* recently set: set_mood(m) makes m the mood, no other operation changes the
\* mood, at most one indicator is raised, and none is for Default.
C17_OneMood ==
    /\ op.name = "set_mood" => eyes.mood = op.args[1]
    /\ op.name # "set_mood" => eyes.mood = pre.mood
    /\ Indicated(eyes) = IF eyes.mood = "DEFAULT" THEN {} ELSE {eyes.mood}

\* Tired, then Angry, then two frames: Angry alone is indicated
C17_Witness ==
    /\ UpdateDone /\ op.streak = 2 /\ op.call = "set_mood"
    /\ op.mood_was = "TIRED" /\ eyes.mood = "ANGRY"
    /\ Indicated(eyes) = {"ANGRY"}

---------------------------------------------------------------------------
(* Cyclops mode *)

Cyclops(s) == IF IsE THEN s.cyclops ELSE s.cyclops_mode

\* the eye shapes of a frame: one rounded rectangle, or one polygon with its
\* corner ellipses and centre rectangles, for every eye drawn
EyeShapes(frame) ==
    {i \in DOMAIN frame : /\ frame[i].part = "eye"
                          /\ frame[i].kind \in {"rounded_rectangle", "polygon"}}

SweatDrops(frame) == {i \in DOMAIN frame : frame[i].part = "sweat"}

\* the left eye as update() is about to draw it: width, height times
\* openness, the bands the mood modifiers cut (roboeyes_2.py), gaze offsets
LeftWidth(s) == IF IsE THEN s.left_eye.width ELSE s.state.left_width
LeftTall(s) ==
    IF IsE THEN RoundDiv(s.left_eye.height * s.left_open, Scale)
    ELSE RoundDiv(s.state.left_height * s.state.left_open, Scale)
LeftRadius(s) == IF IsE THEN s.left_eye.border_radius ELSE s.state.left_radius
TopBand(s) ==
    IF IsE THEN 0 ELSE RoundDiv(LeftTall(s) * s.state.left_top_mod, Scale)
BottomBand(s) ==
    IF IsE THEN 0 ELSE RoundDiv(LeftTall(s) * s.state.left_bottom_mod, Scale)
GazeX(s) == IF IsE THEN s.x ELSE s.state.x_offset
GazeY(s) == IF IsE THEN s.y ELSE s.state.y_offset

\* the single eye is large enough for the code to draw it
CyclopsVisible(s) ==
    IF IsE
    THEN LeftTall(s) > Scale /\ Trunc(LeftWidth(s)) >= 4 /\ Trunc(LeftTall(s)) >= 4
    ELSE LeftTall(s) - TopBand(s) - BottomBand(s) >= 2 * Scale

\* the eye shape p is the left eye of s, centred on the screen plus the gaze
\* and flicker offsets, to within the pixel that int() drops
CentredLeftEye(p, s) ==
    LET mid_x == ScreenWidth(s) * Scale + 2 * (GazeX(s) + op.flicker[1] * Scale)
        mid_y == ScreenHeight(s) * Scale + 2 * (GazeY(s) + op.flicker[2] * Scale)
                     + TopBand(s) - BottomBand(s)
    IN  /\ Abs(p.x1 + p.x2 - mid_x) <= 3 * Scale
        /\ Abs(p.y1 + p.y2 - mid_y) <= 3 * Scale
        /\ p.kind = "rounded_rectangle" =>
              /\ Abs((p.x2 - p.x1) - LeftWidth(s)) < Scale
              /\ Abs((p.y2 - p.y1) - (LeftTall(s) - TopBand(s) - BottomBand(s))) < Scale
              /\ p.radius <= Max(LeftRadius(s), 0)
              /\ 2 * p.radius <= Max(p.x2 - p.x1, 0)
              /\ 2 * p.radius <= p.y2 - p.y1 + 1

CyclopsFrame == UpdateDone /\ Cyclops(eyes)

\* C18: in cyclops mode every update() issues exactly one eye shape and no
\* sweat drop, the shape centred on the screen plus the gaze and flicker
\* offsets with the left eye's width, height and corner radius.
C18_ExactlyOneEye ==
    CyclopsFrame =>
        /\ Cardinality(EyeShapes(Drawn)) = 1
        /\ SweatDrops(Drawn) = {}
        /\ \A i \in EyeShapes(Drawn) : CentredLeftEye(Drawn[i], eyes)

\* C18 as the code has it: at most one eye shape, and none when the eye is
\* too small to draw (closed, or under the size threshold).
C18_AtMostOneEye ==
    CyclopsFrame =>
        /\ Cardinality(EyeShapes(Drawn)) = IF CyclopsVisible(eyes) THEN 1 ELSE 0
        /\ SweatDrops(Drawn) = {}
        /\ \A i \in EyeShapes(Drawn) : CentredLeftEye(Drawn[i], eyes)

\* a cyclops frame with sweat switched on: one eye, no drop; and a cyclops
\* frame after close(): no eye
C18_Witness ==
    /\ CyclopsFrame /\ (IF IsE THEN eyes.sweat ELSE eyes.sweat_enabled)
    /\ Cardinality(EyeShapes(Drawn)) = 1
C18_Witness_closed ==
    /\ CyclopsFrame /\ op.call = "close" /\ EyeShapes(Drawn) = {}

---------------------------------------------------------------------------
(* Curiosity mode *)

Curious(s) == IF IsE THEN s.curious ELSE s.curiosity_mode

\* the height curiosity mode writes for an eye (eyes.py: the height target,
\* roboeyes_2.py: the current height) and the eye's default height
CuriousHeight(s, side) ==
    IF IsE THEN (IF side = "left" THEN s.left_eye.height_next
                 ELSE s.right_eye.height_next)
    ELSE (IF side = "left" THEN s.state.left_height ELSE s.state.right_height)
DefaultHeight(s, side) ==
    IF side = "left" THEN s.left_eye.height_default ELSE s.right_eye.height_default

\* update() has run a tick with curiosity mode enabled
CuriousTick == UpdateDone /\ Curious(pre) /\ Curious(eyes)

DeadZone == 5 * Scale

\* C19: on every tick of curiosity mode with the gaze x offset above 5 only
\* the left eye's height is raised above its default, with x below -5 only
\* the right eye's, and with |x| <= 5 both heights are the defaults; the eye
\* on the side the gaze points toward always has its default height.
C19_OuterEyeOnly ==
    CuriousTick =>
        /\ GazeX(eyes) > DeadZone =>
              /\ CuriousHeight(eyes, "left") > DefaultHeight(eyes, "left")
              /\ CuriousHeight(eyes, "right") = DefaultHeight(eyes, "right")
        /\ GazeX(eyes) < -DeadZone =>
              /\ CuriousHeight(eyes, "right") > DefaultHeight(eyes, "right")
              /\ CuriousHeight(eyes, "left") = DefaultHeight(eyes, "left")
        /\ Abs(GazeX(eyes)) <= DeadZone =>
              /\ CuriousHeight(eyes, "left") = DefaultHeight(eyes, "left")
              /\ CuriousHeight(eyes, "right") = DefaultHeight(eyes, "right")

---------------------------------------------------------------------------
(* Exceptions and degenerate geometry *)

PositiveExtents(p) == p.x2 > p.x1 /\ p.y2 > p.y1

\* C20: no exception leaves update(), whatever the public setters were given,
\* and every draw call of the frame has strictly positive extents.
C20_NoExceptionNoDegenerate ==
    op.name = "update" =>
        /\ ~op.raised
        /\ \A i \in DOMAIN Drawn : PositiveExtents(Drawn[i])

---------------------------------------------------------------------------
(* Corner radius *)

RoundedRects(frame) == {i \in DOMAIN frame : frame[i].kind = "rounded_rectangle"}

RadiusInRange(p) ==
    /\ 0 <= p.radius
    /\ 2 * p.radius <= Min(p.x2 - p.x1, p.y2 - p.y1)

\* C21: whatever corner radius was configured, negative or larger than half
\* the eye, the radius of every rounded rectangle update() draws is at least
\* 0 and at most half the smaller side of that rectangle.
C21_RadiusClamped ==
    UpdateDone => \A i \in RoundedRects(Drawn) : RadiusInRange(Drawn[i])

---------------------------------------------------------------------------
(* Eye geometry *)

\* the current width, height and corner radius of both eyes
CurrentGeometry(s) ==
    IF IsE
    THEN << s.left_eye.width, s.left_eye.height, s.left_eye.border_radius,
            s.right_eye.width, s.right_eye.height, s.right_eye.border_radius >>
    ELSE << s.state.left_width, s.state.left_height, s.state.left_radius,
            s.state.right_width, s.state.right_height, s.state.right_radius >>

\* C22: in every reachable state each eye's current width, height and corner
\* radius are non-negative.
C22_GeometryNonNegative ==
    \A i \in 1..6 : CurrentGeometry(eyes)[i] >= 0

\* the targets and defaults of one eye's geometry that update() must leave
\* alone: all of them but, in curiosity mode, the height target
Configured(g, curious) ==
    IF IsE
    THEN << g.width_next, g.border_radius_next, g.width_default, g.height_default,
            g.border_radius_default, IF curious THEN 0 ELSE g.height_next >>
    ELSE << g.width, g.border_radius, g.width_default, g.height_default,
            g.border_radius_default, g.height >>

\* C23: update() leaves every eye's target and default width, height and
\* corner radius unchanged, except that in curiosity mode it may change the
\* height targets.
C23_UpdateKeepsTargets ==
    op.name = "update" =>
        /\ Configured(eyes.left_eye, Curious(pre))
               = Configured(pre.left_eye, Curious(pre))
        /\ Configured(eyes.right_eye, Curious(pre))
               = Configured(pre.right_eye, Curious(pre))

\* eyes.py: a tick of curiosity mode has raised the left eye's height target
\* and tweened the height toward it
C23_Witness ==
    /\ IsE /\ CuriousTick
    /\ eyes.left_eye.height_next > pre.left_eye.height_next
    /\ eyes.left_eye.height > pre.left_eye.height

---------------------------------------------------------------------------
(* Display sinks *)

\* C24: cleanup() can be called any number of times in a row, and again from
\* object finalization, without raising, also when the driver's release call
\* fails on a repeated call.
C24_CleanupNeverRaises ==
    sink.name \in {"cleanup", "__del__"} => ~sink.raised

\* C30: every duty-cycle value a sink hands to the driver, from the
\* constructor and from set_backlight(value), is within 0..100.
C30_BacklightInRange ==
    \A i \in DOMAIN sink.duties : sink.duties[i] \in 0..100

---------------------------------------------------------------------------
(* The blink curve *)

\* the time the blink in progress in s has run when the tick at op.t is
\* computed, and its duration
BlinkElapsed(s) ==
    op.t - (IF IsE THEN s.blink_start_time ELSE s.animation_start_time)
BlinkDuration(s) == IF IsE THEN s.blink_duration ELSE s.animation_duration

\* the update() that has just returned completed the blink or wink of the
\* latest caller operation (its progress was t >= 1)
BlinkEnds == BlinkOver /\ BlinkActive(pre)

\* the openness of a covered eye is v after the tick that completed the
\* blink: was is its value before the tick, tg its open target after it.
\* eyes.py writes no openness at t >= 1, it sets the target and the fast
\* tween resumes; roboeyes_2.py writes the curve's last value and blends.
EndsOpen(v, was, tg) ==
    v = IF IsE THEN E_tween_fast(was, tg)
        ELSE R2_lerp(BlinkCurve(BlinkDuration(pre), BlinkDuration(pre)), tg,
                     eyes.blink_speed)

\* the openness the blink produced on the tick that completed it, for an eye
\* whose field holds v: roboeyes_2.py evaluates the curve at t = 1, eyes.py
\* leaves the field to the tween
ProducedAtEnd(v) ==
    IF IsE THEN v ELSE BlinkCurve(BlinkDuration(pre), BlinkDuration(pre))

\* C25, as stated: the openness the blink produces at progress t equals the
\* one at 1 - t, and the openness at t = 0 and at t = 1 equals the openness
\* the eye had before the blink, also of an eye that was not fully open.
C25_BlinkEndsAtPrior ==
    /\ BlinkWindow =>
           /\ CurveNow = BlinkCurve(BlinkDuration(eyes) - BlinkElapsed(eyes),
                                    BlinkDuration(eyes))
           /\ (BlinkElapsed(eyes) = 0 /\ CoversLeft(op.call)) =>
                  CurveNow = LeftOpen(anchor)
           /\ (BlinkElapsed(eyes) = 0 /\ CoversRight(op.call)) =>
                  CurveNow = RightOpen(anchor)
    /\ BlinkEnds =>
           /\ CoversLeft(op.call) => ProducedAtEnd(LeftOpen(eyes)) = LeftOpen(anchor)
           /\ CoversRight(op.call) => ProducedAtEnd(RightOpen(eyes)) = RightOpen(anchor)

\* C25, amended: the blink curve at progress t equals the curve at 1 - t and
\* is fully open (1.0) at t = 0 and t = 1, whatever the eye's openness before
\* the blink.  On a tick of the window the covered eyes are written from the
\* curve (roboeyes_2.py then blends once toward the target); on the tick
\* that completes the blink eyes.py resumes the fast tween toward the
\* target from the last sampled value and roboeyes_2.py blends from 1.0.
C25_BlinkCurveSymmetric ==
    /\ BlinkWindow =>
           /\ CurveNow = BlinkCurve(BlinkDuration(eyes) - BlinkElapsed(eyes),
                                    BlinkDuration(eyes))
           /\ BlinkElapsed(eyes) = 0 => CurveNow = Scale
           /\ CoversLeft(op.call) => WinkEyeOk(LeftOpen(eyes), LeftTarget(eyes))
           /\ CoversRight(op.call) => WinkEyeOk(RightOpen(eyes), RightTarget(eyes))
    /\ BlinkEnds =>
           /\ BlinkCurve(BlinkDuration(pre), BlinkDuration(pre)) = Scale
           /\ CoversLeft(op.call) =>
                  EndsOpen(LeftOpen(eyes), LeftOpen(pre), LeftTarget(eyes))
           /\ CoversRight(op.call) =>
                  EndsOpen(RightOpen(eyes), RightOpen(pre), RightTarget(eyes))

\* a blink of an eye that was not fully open is sampled at t = 0 and past
\* the middle of its window
C25_Witness ==
    /\ BlinkWindow /\ CoversLeft(op.call)
    /\ LeftOpen(anchor) < Scale
    /\ 2 * BlinkElapsed(eyes) > BlinkDuration(eyes)
    /\ CurveNow < Scale

C25_Witness_start == BlinkWindow /\ CoversLeft(op.call) /\ BlinkElapsed(eyes) = 0

C25_Witness_ends == BlinkEnds /\ CoversLeft(op.call) /\ LeftOpen(anchor) < Scale

---------------------------------------------------------------------------
(* Manual and automatic blinks *)

\* blink() called on instance s at time now
BlinkAt(s, now) ==
    IF IsE THEN E_blink(s, now, TRUE, TRUE) ELSE R2_blink(s, now, TRUE, TRUE)

\* the blink state of s: active flag, start time, duration, affected eyes
BlinkState(s) ==
    IF IsE
    THEN <<s.is_blinking, s.blink_start_time, s.blink_duration,
           s.blink_left, s.blink_right>>
    ELSE <<s.animating /\ s.animation_func.kind = "blink", s.animation_start_time,
           s.animation_duration, s.animation_func.left, s.animation_func.right>>

\* update() of instance s with pacing point t and the draws ui, p of idle
\* mode; no automatic blink draws in a tick in which a blink is running
TickOf(s, t, ui, p) ==
    IF IsE THEN E_update(s, t, 0, ui, p, <<0, 0, 0>>) ELSE R2_update(s, t, 0, ui, p)

FrameIntervalOf(s) == IF IsE THEN s.frame_interval ELSE s.frame_time

\* instance s, last updated at t, after n more frames, one frame interval
\* apart, in which every random draw is the middle one
RECURSIVE Later(_, _, _)
Later(s, t, n) ==
    IF n = 0 THEN s
    ELSE Later(TickOf(s, t + FrameIntervalOf(s), 0, "DEFAULT"),
               t + FrameIntervalOf(s), n - 1)

\* the instance without the time of the next automatic blink
ApartFromNextBlink(s) == [s EXCEPT !.next_blink_time = 0]

SameApartFromNextBlink(a, b) == ApartFromNextBlink(a) = ApartFromNextBlink(b)

\* the instances update() leaves when, instead of the automatic blink the
\* update() that has just returned fired, blink() is called at the same
\* instant on the same instance and the same update() follows
ManualTwins == {TickOf(BlinkAt(pre, op.t), op.t, ui, p) : ui \in UnitDraws, p \in Choices}

\* a wink is the blink of the same instant with one eye taken out
WinkIsBlinkOfOneEye ==
    /\ op.name = "wink_left" =>
           eyes = IF IsE THEN [BlinkAt(pre, op.t) EXCEPT !.blink_right = FALSE]
                  ELSE [BlinkAt(pre, op.t) EXCEPT !.animation_func.right = FALSE]
    /\ op.name = "wink_right" =>
           eyes = IF IsE THEN [BlinkAt(pre, op.t) EXCEPT !.blink_left = FALSE]
                  ELSE [BlinkAt(pre, op.t) EXCEPT !.animation_func.left = FALSE]

\* C26, as stated: the blink state after an automatic blink equals the one
\* after blink() called at the same instant on the same state, every later
\* tick of the two runs is the same apart from the time of the next
\* automatic blink, and a wink differs from a blink only in the eyes covered.
C26_SameEverAfter ==
    /\ op.fired =>
           /\ BlinkState(eyes) = BlinkState(BlinkAt(pre, op.t))
           /\ \E m \in ManualTwins :
                  \A n \in 0..MaxTwin :
                      SameApartFromNextBlink(Later(eyes, op.t, n), Later(m, op.t, n))
    /\ WinkIsBlinkOfOneEye

\* the blink running in instance s, last updated at t, is still running
\* after each of the next n frames
BlinkRuns(s, t, n) == \A k \in 0..n : BlinkActive(Later(s, t, k))

\* C26, amended: the two runs are the same, apart from the time of the next
\* automatic blink, on every tick up to and including the one that
\* completes the blink; on the tick after it the run of the manual blink,
\* whose next automatic blink is still due, starts a new blink.
C26_SameUntilBlinkEnds ==
    /\ op.fired =>
           /\ BlinkState(eyes) = BlinkState(BlinkAt(pre, op.t))
           /\ \E m \in ManualTwins :
                  /\ SameApartFromNextBlink(eyes, m)
                  /\ \A n \in 1..MaxTwin :
                         BlinkRuns(eyes, op.t, n - 1) =>
                             /\ SameApartFromNextBlink(Later(eyes, op.t, n),
                                                       Later(m, op.t, n))
                             /\ ~BlinkActive(Later(eyes, op.t, n)) =>
                                    BlinkActive(Later(m, op.t, n + 1))
    /\ WinkIsBlinkOfOneEye

\* an automatic blink has fired on an instance whose eyes were closed
C26_Witness == op.fired /\ LeftTarget(pre) = 0 /\ BlinkActive(eyes)

C26_Witness_wink == op.name = "wink_left" /\ ~BlinkActive(pre) /\ BlinkActive(eyes)

---------------------------------------------------------------------------
(* Ranges *)

UnitRange == 0..Scale      \* [0, 1]

\* the current mood-shape modifiers of instance s (eyes.py has none: its
\* moods are the three flags)
Modifiers(s) ==
    IF IsE THEN <<>>
    ELSE <<s.state.left_top_mod, s.state.left_bottom_mod,
           s.state.right_top_mod, s.state.right_bottom_mod>>

\* C27: in every reachable state, under any interleaving of open, close,
\* blink, wink, set_mood and update() with a non-decreasing clock, the
\* openness of both eyes and the four mood-shape modifiers are within [0, 1].
C27_RangeInvariant ==
    /\ LeftOpen(eyes) \in UnitRange
    /\ RightOpen(eyes) \in UnitRange
    /\ \A i \in DOMAIN Modifiers(eyes) : Modifiers(eyes)[i] \in UnitRange

\* a blink has the left eye part closed while a mood's modifier blends
C27_Witness ==
    /\ ~IsE /\ BlinkWindow
    /\ LeftOpen(eyes) > 0 /\ LeftOpen(eyes) < Scale
    /\ \E i \in DOMAIN Modifiers(eyes) :
           Modifiers(eyes)[i] > 0 /\ Modifiers(eyes)[i] < Scale

C27_Witness_eyes ==
    /\ IsE /\ BlinkWindow /\ eyes.mood # "DEFAULT"
    /\ LeftOpen(eyes) > 0 /\ 2 * LeftOpen(eyes) < Scale

---------------------------------------------------------------------------
(* Retargeting *)

\* the fields the interpolation engine blends that are gaze offsets,
\* openness or mood-shape modifiers
LiveFields == {i \in DOMAIN Fields(eyes) : Fields(eyes)[i].class # "geometry"}

\* instance s with the gaze targets blanked
WithoutGazeTarget(s) ==
    IF IsE THEN [s EXCEPT !.x_next = 0, !.y_next = 0]
    ELSE [s EXCEPT !.position = "DEFAULT", !.target_x_offset = 0,
                   !.target_y_offset = 0]

\* instance s with the mood and its targets blanked
WithoutMood(s) ==
    IF IsE THEN [s EXCEPT !.mood = "DEFAULT", !.tired = FALSE, !.angry = FALSE,
                          !.happy = FALSE]
    ELSE [s EXCEPT !.mood = "DEFAULT",
                   !.target_left_top_mod = 0, !.target_left_bottom_mod = 0,
                   !.target_right_top_mod = 0, !.target_right_bottom_mod = 0]

SetPositionOf(s, position) ==
    IF IsE THEN E_set_position(s, position) ELSE R2_set_position(s, position)

SetMoodOf(s, mood) == IF IsE THEN E_set_mood(s, mood) ELSE R2_set_mood(s, mood)

\* the first update() after a set_position or set_mood has returned
FirstAfterRetarget ==
    UpdateDone /\ op.streak = 1 /\ op.call \in {"set_position", "set_mood"}

\* C28: set_position and set_mood, called at any time, overwrite only the
\* targets: the current gaze offsets, openness and shape modifiers are
\* unchanged by the call, what the call leaves does not depend on the old
\* target, and on the next update() every value the interpolation engine
\* has moves from its current value toward the new target.
C28_ImplicitCancellation ==
    /\ op.name = "set_position" =>
           /\ WithoutGazeTarget(eyes) = WithoutGazeTarget(pre)
           /\ eyes = SetPositionOf(WithoutGazeTarget(pre), op.args[1])
    /\ op.name = "set_mood" =>
           /\ WithoutMood(eyes) = WithoutMood(pre)
           /\ eyes = SetMoodOf(WithoutMood(pre), op.args[1])
    /\ FirstAfterRetarget =>
           \A i \in LiveFields :
               Blended(i) =>
                   /\ Fields(pre)[i].tg = Fields(anchor)[i].tg
                   /\ Between(Fields(pre)[i].v, Fields(eyes)[i].v, Fields(pre)[i].tg)
                   /\ Fields(pre)[i].v # Fields(pre)[i].tg =>
                          Fields(eyes)[i].v # Fields(pre)[i].v

\* a gaze on its way to one side is sent to the other side and turns round
C28_Witness ==
    /\ FirstAfterRetarget /\ op.call = "set_position" /\ Blended(1)
    /\ Fields(pre)[1].v > 0 /\ Fields(pre)[1].tg < 0
    /\ Fields(eyes)[1].v < Fields(pre)[1].v

C28_Witness_mood ==
    /\ ~IsE /\ FirstAfterRetarget /\ op.call = "set_mood"
    /\ Fields(pre)[5].v > 0 /\ Fields(pre)[5].tg = 0 /\ Fields(pre)[6].tg > 0
    /\ Fields(eyes)[5].v < Fields(pre)[5].v /\ Fields(eyes)[6].v > 0

---------------------------------------------------------------------------
(* Feature flags *)

FlagSetters ==
    {"set_cyclops", "set_curiosity", "set_h_flicker", "set_v_flicker", "set_sweat"}

\* instance s with the flag and the parameters of the named setter blanked
WithoutFlag(s, name) ==
    IF IsE
    THEN CASE name = "set_cyclops" -> [s EXCEPT !.cyclops = FALSE]
           [] name = "set_curiosity" -> [s EXCEPT !.curious = FALSE]
           [] name = "set_h_flicker" ->
                  [s EXCEPT !.h_flicker = FALSE, !.h_flicker_amplitude = 0]
           [] name = "set_v_flicker" ->
                  [s EXCEPT !.v_flicker = FALSE, !.v_flicker_amplitude = 0]
           [] name = "set_sweat" ->
                  [s EXCEPT !.sweat = FALSE, !.sweat_pos = <<0, 0, 0>>,
                            !.sweat_sizes = <<0, 0, 0>>]
    ELSE CASE name = "set_cyclops" -> [s EXCEPT !.cyclops_mode = FALSE]
           [] name = "set_curiosity" -> [s EXCEPT !.curiosity_mode = FALSE]
           [] name = "set_h_flicker" ->
                  [s EXCEPT !.h_flicker = FALSE, !.h_flicker_amplitude = 0]
           [] name = "set_v_flicker" ->
                  [s EXCEPT !.v_flicker = FALSE, !.v_flicker_amplitude = 0]
           [] name = "set_sweat" ->
                  [s EXCEPT !.sweat_enabled = FALSE, !.sweat_y = 0,
                            !.sweat_visible = FALSE]

\* the flag of the named setter in instance s
FlagOf(s, name) ==
    IF IsE
    THEN CASE name = "set_cyclops" -> s.cyclops
           [] name = "set_curiosity" -> s.curious
           [] name = "set_h_flicker" -> s.h_flicker
           [] name = "set_v_flicker" -> s.v_flicker
           [] name = "set_sweat" -> s.sweat
    ELSE CASE name = "set_cyclops" -> s.cyclops_mode
           [] name = "set_curiosity" -> s.curiosity_mode
           [] name = "set_h_flicker" -> s.h_flicker
           [] name = "set_v_flicker" -> s.v_flicker
           [] name = "set_sweat" -> s.sweat_enabled

\* C29: each of set_cyclops, set_curiosity, set_h_flicker, set_v_flicker
\* and set_sweat sets its own flag to its argument and changes only that
\* flag and its own parameters: every other flag, the mood, the gaze and
\* open targets and the timers are as before the call.
C29_FlagsIndependent ==
    op.name \in FlagSetters =>
        /\ FlagOf(eyes, op.name) = op.args[1]
        /\ WithoutFlag(eyes, op.name) = WithoutFlag(pre, op.name)

\* cyclops mode is switched on in an instance that has another flag set, or
\* a mood, a gaze target or closed lids
C29_Witness ==
    /\ op.name = "set_cyclops" /\ op.args[1] /\ ~FlagOf(pre, "set_cyclops")
    /\ \/ FlagOf(pre, "set_curiosity")
       \/ FlagOf(pre, "set_sweat")
       \/ eyes.mood # "DEFAULT"
       \/ LeftTarget(eyes) = 0

C29_Witness_sweat ==
    /\ op.name = "set_sweat" /\ op.args[1] /\ op.streak = 0
    /\ FlagOf(pre, "set_h_flicker") /\ eyes # pre

---------------------------------------------------------------------------
(* Termination of the reaction animations *)

ReactionCalls == {"blink", "anim_confused", "anim_laugh"}

\* the index in Fields of the field the reaction started by the call owns
\* (of a blink: the left eye's openness)
OwnedField(call) ==
    CASE call = "anim_confused" -> 1
      [] call = "anim_laugh" -> 2
      [] OTHER -> 3

\* the start time and the duration instance s holds of the reaction the
\* call started
ReactionStart(s, call) ==
    IF ~IsE THEN s.animation_start_time
    ELSE CASE call = "anim_confused" -> s.confused_start_time
           [] call = "anim_laugh" -> s.laugh_start_time
           [] OTHER -> s.blink_start_time

ReactionDuration(s, call) ==
    IF ~IsE THEN s.animation_duration
    ELSE CASE call = "anim_confused" -> s.confused_duration
           [] call = "anim_laugh" -> s.laugh_duration
           [] OTHER -> s.blink_duration

\* an update() has just been run whose pacing point is at or past the end of
\* the reaction the latest caller operation started, with no autoblinker to
\* start another
ReactionDue ==
    /\ op.name = "update" /\ op.call \in ReactionCalls
    /\ ~AutoblinkEnabled(anchor)
    /\ op.t >= ReactionStart(anchor, op.call) + ReactionDuration(anchor, op.call)

\* C31: once the clock has advanced by the duration of a blink, a confused
\* shake or a laugh of any duration d >= 0 that is not triggered again, the
\* next update() completes the animation without error, and from then on the
\* field it owned moves toward the target it has after the tick.
C31_ReactionsTerminate ==
    ReactionDue =>
        /\ ~op.raised
        /\ ~AnimRuns(eyes, Fields(eyes)[OwnedField(op.call)].owner)
        /\ ~AnimRuns(pre, Fields(pre)[OwnedField(op.call)].owner) =>
               /\ Between(Fields(pre)[OwnedField(op.call)].v,
                          Fields(eyes)[OwnedField(op.call)].v,
                          Fields(eyes)[OwnedField(op.call)].tg)
               /\ BlendedToFixed(OwnedField(op.call)) =>
                      Dist(eyes, OwnedField(op.call)) <= Dist(pre, OwnedField(op.call))

---------------------------------------------------------------------------
(* The shakes *)

\* the update() that has just returned was a tick of the running reaction
\* animation named owner, which is still running after it
ShakeTick(owner) == UpdateDone /\ AnimRuns(pre, owner) /\ AnimRuns(eyes, owner)

\* amplitude x (1 - t) at t = elapsed / duration, amplitude in pixels
Envelope(amplitude, elapsed, duration) ==
    RoundDiv(amplitude * Scale * (duration - elapsed), duration)

\* field i of the instance is within the envelope of the given amplitude
\* round its target, at the progress the tick just run computed
WithinEnvelope(i, amplitude, call) ==
    Dist(eyes, i) <= Envelope(amplitude, op.t - ReactionStart(pre, call),
                              ReactionDuration(pre, call))

\* field i was blended in the tick just run as the interpolation engine
\* blends a gaze offset: from its value before the tick toward the target
NormalBlend(i) ==
    Fields(eyes)[i].v =
        IF IsE THEN E_tween(Fields(pre)[i].v, Fields(eyes)[i].tg)
        ELSE R2_lerp(Fields(pre)[i].v, Fields(eyes)[i].tg, eyes.transition_speed)

\* C32, as stated: on every tick of a confused shake with progress t the x
\* offset is within 15 x (1 - t) of its target and the y offset continues
\* its normal blend; on every tick of a laugh the y offset is within
\* 8 x (1 - t) of its target and the x offset continues its normal blend.
C32_ShakeOneAxis ==
    /\ ShakeTick("confused") =>
           WithinEnvelope(1, 15, "anim_confused") /\ NormalBlend(2)
    /\ ShakeTick("laugh") =>
           WithinEnvelope(2, 8, "anim_laugh") /\ NormalBlend(1)

\* C32, amended: the envelopes hold on every tick of a shake, and the other
\* axis continues its normal blend unless the other shake is running at the
\* same time, which only eyes.py allows.
C32_ShakeEnvelope ==
    /\ ShakeTick("confused") =>
           /\ WithinEnvelope(1, 15, "anim_confused")
           /\ ~AnimRuns(pre, "laugh") => NormalBlend(2)
    /\ ShakeTick("laugh") =>
           /\ WithinEnvelope(2, 8, "anim_laugh")
           /\ ~AnimRuns(pre, "confused") => NormalBlend(1)
    /\ (ShakeTick("confused") /\ ShakeTick("laugh")) => IsE

\* eyes.py shakes both axes at once
C32_Witness_both ==
    /\ ShakeTick("confused") /\ ShakeTick("laugh")
    /\ Dist(eyes, 1) > 0 /\ Dist(eyes, 2) > 0

\* a confused shake alone moves x off its target while y is blended
C32_Witness ==
    /\ ShakeTick("confused") /\ ~AnimRuns(pre, "laugh")
    /\ Dist(eyes, 1) > Scale /\ NormalBlend(2)

---------------------------------------------------------------------------
(* Fast blend and closing *)

OpenFields == {i \in DOMAIN Fields(eyes) : Fields(eyes)[i].class = "open"}

\* the distance of field i to its target is 0.6 of what it was before the
\* tick, to the rounding of the last digit
FastRate(i) ==
    Abs(Scale * Dist(eyes, i) - (Scale - R2_blink_speed) * Dist(pre, i))
        <= Scale \div 2

\* instance s with both open targets blanked
WithoutOpenTargets(s) ==
    IF IsE THEN [s EXCEPT !.left_open_next = 0, !.right_open_next = 0]
    ELSE [s EXCEPT !.target_left_open = 0, !.target_right_open = 0]

\* open(left, right) or close(left, right) has just returned: only the
\* targets of the selected eyes were written, with 1.0 or 0.0
LidCallFrame ==
    op.name \in {"open", "close"} =>
        LET v == IF op.name = "open" THEN Scale ELSE 0
        IN  /\ WithoutOpenTargets(eyes) = WithoutOpenTargets(pre)
            /\ LeftTarget(eyes) = IF op.args[1] THEN v ELSE LeftTarget(pre)
            /\ RightTarget(eyes) = IF op.args[2] THEN v ELSE RightTarget(pre)

\* an update() after close(), the latest caller operation, called while no
\* blink was running
ClosingTick == UpdateDone /\ op.call = "close" /\ ~BlinkActive(anchor)

\* after close() the openness of an eye whose target close() left at 0 does
\* not grow and is not below 0, and CloseTicks updates later the eye is not
\* drawn
Closing ==
    ClosingTick =>
        /\ LeftTarget(anchor) = 0 =>
               (LeftOpen(eyes) <= LeftOpen(pre) /\ LeftOpen(eyes) >= 0)
        /\ RightTarget(anchor) = 0 =>
               (RightOpen(eyes) <= RightOpen(pre) /\ RightOpen(eyes) >= 0)
        /\ op.streak >= CloseTicks =>
               /\ (LeftTarget(anchor) = 0 /\ RightTarget(anchor) = 0) =>
                      EyeShapes(Drawn) = {}
               /\ (LeftTarget(anchor) = 0 \/ RightTarget(anchor) = 0) =>
                      Cardinality(EyeShapes(Drawn)) <= 1

C33_Witness_closing ==
    /\ ClosingTick /\ op.streak = 2
    /\ LeftTarget(anchor) = 0 /\ RightTarget(anchor) = 0
    /\ LeftOpen(eyes) < LeftOpen(pre) /\ EyeShapes(Drawn) # {}

---------------------------------------------------------------------------
(* The sweat loop of eyes.py *)

SweatTick == IsE /\ UpdateDone

\* C34: with sweat enabled, after every update() each of the three drop
\* positions is within [0, 50] and each size multiplier within [0.5, 1.0]; a
\* drop that passes the travel limit 50 is reset in the same tick to a start
\* offset in [0, 10] with size exactly 1.0; with sweat disabled update()
\* leaves the drop positions and sizes unchanged.
C34_SweatLoop ==
    SweatTick =>
        IF pre.sweat
        THEN \A i \in 1..3 :
                 /\ eyes.sweat_pos[i] >= 0 /\ eyes.sweat_pos[i] <= 50 * Scale
                 /\ 2 * eyes.sweat_sizes[i] >= Scale /\ eyes.sweat_sizes[i] <= Scale
                 /\ E_sweat_resets(pre, i) =>
                        /\ eyes.sweat_pos[i] >= 0 /\ eyes.sweat_pos[i] <= 10 * Scale
                        /\ eyes.sweat_sizes[i] = Scale
                 /\ ~E_sweat_resets(pre, i) =>
                        eyes.sweat_pos[i] = pre.sweat_pos[i] + RoundDiv(15 * Scale, 10)
        ELSE /\ eyes.sweat_pos = pre.sweat_pos
             /\ eyes.sweat_sizes = pre.sweat_sizes

\* a drop has passed the travel limit and was sent back in this tick
C34_Witness ==
    /\ SweatTick /\ pre.sweat
    /\ \E i \in 1..3 : E_sweat_resets(pre, i) /\ eyes.sweat_pos[i] <= 10 * Scale

\* sweat was switched off with the drops on their way
C34_Witness_off ==
    /\ SweatTick /\ ~pre.sweat /\ eyes.sweat_pos # <<0, 0, 0>>

---------------------------------------------------------------------------
(* Flicker *)

\* the primitive p moved by dx, dy pixels
ShiftPrim(p, dx, dy) ==
    [p EXCEPT !.x1 = @ + dx * Scale, !.x2 = @ + dx * Scale,
              !.y1 = @ + dy * Scale, !.y2 = @ + dy * Scale]

Shifted(frame, dx, dy) ==
    [i \in DOMAIN frame |-> ShiftPrim(frame[i], dx, dy)]

\* the frame of the stored gaze offsets, without flicker
Unflickered == IF IsE THEN E_render(eyes, 0, 0) ELSE R2_render(eyes, 0, 0)

\* the offsets a flicker of amplitude a may add when enabled
FlickerSpan(enabled, a) == IF enabled THEN -a..a ELSE {0}

FlickerTick ==
    /\ UpdateDone
    /\ eyes.h_flicker => eyes.h_flicker_amplitude >= 0
    /\ eyes.v_flicker => eyes.v_flicker_amplitude >= 0

\* C35: with horizontal (vertical) flicker enabled at amplitude a >= 0 the
\* offset used for drawing differs from the stored gaze offset by a value in
\* [-a, +a] on that axis, the stored gaze offsets and targets are not
\* modified by flicker, and with flicker disabled the drawing offset equals
\* the stored gaze offset exactly.
C35_FlickerRenderOnly ==
    FlickerTick =>
        /\ \E fx \in FlickerSpan(eyes.h_flicker, eyes.h_flicker_amplitude) :
               \E fy \in FlickerSpan(eyes.v_flicker, eyes.v_flicker_amplitude) :
                   Drawn = Shifted(Unflickered, fx, fy)
        /\ \A i \in {1, 2} :
               /\ Blended(i) => NormalBlend(i)
               /\ ~op.idled => Fields(eyes)[i].tg = Fields(pre)[i].tg

\* a frame drawn two pixels off the stored gaze offset, the stored offset on
\* its way to a target set by the caller
C35_Witness ==
    /\ FlickerTick /\ eyes.h_flicker /\ eyes.h_flicker_amplitude = 2
    /\ op.flicker[1] = 2 /\ Drawn # Unflickered /\ Len(Drawn) > 0
    /\ Fields(eyes)[1].v # Fields(pre)[1].v

\* vertical flicker, and flicker of amplitude 0
C35_Witness_vertical ==
    /\ FlickerTick /\ eyes.v_flicker /\ op.flicker[2] = -2
    /\ eyes.h_flicker /\ eyes.h_flicker_amplitude = 0
    /\ Drawn # Unflickered

---------------------------------------------------------------------------
(* The two-eye layout *)

RightWidth(s) == IF IsE THEN s.right_eye.width ELSE s.state.right_width
RightTall(s) ==
    IF IsE THEN RoundDiv(s.right_eye.height * s.right_open, Scale)
    ELSE RoundDiv(s.state.right_height * s.state.right_open, Scale)

\* the bands the mood modifiers of roboeyes_2.py cut from the top and the
\* bottom of an eye `tall` high
Band(tall, mod) == IF IsE THEN 0 ELSE RoundDiv(tall * mod, Scale)

\* a frame of the two eyes, both drawn, with zero gaze offset and no flicker
TwoEyeFrame ==
    /\ UpdateDone /\ ~Cyclops(eyes)
    /\ GazeX(eyes) = 0 /\ GazeY(eyes) = 0 /\ op.flicker = <<0, 0>>
    /\ Cardinality(EyeShapes(Drawn)) = 2

LeftShape == Drawn[CHOOSE i \in EyeShapes(Drawn) : \A k \in EyeShapes(Drawn) : i <= k]
RightShape == Drawn[CHOOSE i \in EyeShapes(Drawn) : \A k \in EyeShapes(Drawn) : i >= k]

\* what the whole pixels of int() (eyes.py) and the rounding of the last
\* digit may move an edge by
EdgeSlack == IF IsE THEN 3 * Scale ELSE 3

\* the box of an eye shape before roboeyes_2.py cut the mood bands from it
BoxTop(p, tall, mod) == p.y1 - Band(tall, mod)
BoxBottom(p, tall, mod) == p.y2 + Band(tall, mod)

\* the primitive tells the left edge of the eye from the right one: a polygon
\* is kept as the bounding box of its points, which does so for an eye of
\* positive width
Edged(p, width) == p.kind = "polygon" => width > 0

C36_Witness_heights ==
    /\ TwoEyeFrame /\ eyes.space_between > 0
    /\ LeftShape.y2 - LeftShape.y1 > RightShape.y2 - RightShape.y1 + 10 * Scale
    /\ LeftShape.kind = "polygon" /\ RightShape.kind = "polygon"
    /\ LeftWidth(eyes) > 0 /\ RightWidth(eyes) > 0
    /\ Band(LeftTall(eyes), eyes.state.left_top_mod) > 10 * Scale

---------------------------------------------------------------------------
(* The order of the steps of a tick *)

\* the automatic blink is due at time t
BlinkDueAt(s, t) ==
    AutoblinkEnabled(s) /\ ~BlinkHeldBack(s) /\ t >= s.next_blink_time

\* the frame update() would have drawn from the state it was entered in
FrameOf(s) ==
    IF IsE THEN E_render(s, op.flicker[1], op.flicker[2])
    ELSE R2_render(s, op.flicker[1], op.flicker[2])

\* the steps before the frame: the timers see the time after the wait, an
\* automatic blink that becomes due on a tick has taken its first step and an
\* idle retarget that becomes due has been blended toward in the state the
\* tick leaves
StepsInOrder ==
    UpdateDone =>
        /\ eyes.last_frame_time = op.t /\ op.t >= op.entered
        /\ op.fired <=> BlinkDueAt(pre, op.t)
        /\ op.fired =>
               /\ BlinkActive(eyes)
               /\ BlinkElapsed(eyes) = 0
               /\ IF IsE THEN E_OwnedFieldsOnCurve(eyes, op.t)
                  ELSE /\ LeftOpen(eyes) =
                              R2_lerp(BlinkCurve(0, eyes.animation_duration),
                                      LeftTarget(eyes), eyes.blink_speed)
                       /\ RightOpen(eyes) =
                              R2_lerp(BlinkCurve(0, eyes.animation_duration),
                                      RightTarget(eyes), eyes.blink_speed)
        /\ op.idled => \A i \in {1, 2} : NormalBlend(i)

\* the sweat drop of roboeyes_2.py, which no step before the frame writes
SweatY(s) == IF IsE THEN 0 ELSE s.sweat_y

\* C37, as stated: within one update() the steps run in the order pacing
\* wait, auto-behaviour timers, reaction-animation step, interpolation,
\* render, so an auto-blink or idle retarget that becomes due on a tick is
\* reflected in the state used to render that tick's frame, and the frame is
\* drawn only after all state changes of the tick.
C37_RenderLast ==
    /\ StepsInOrder
    /\ UpdateDone => SweatY(eyes) = SweatY(pre)

\* C37, amended: the steps run in that order, and the state changes of the
\* tick precede the frame except one: roboeyes_2.py moves its sweat drop
\* while it draws it.
C37_TickOrder ==
    /\ StepsInOrder
    /\ (UpdateDone /\ ~IsE) => eyes.sweat_y = R2_draw_sweat_drop(pre).sweat_y

\* roboeyes_2.py has moved the sweat drop in the draw call of the tick
C37_Witness_sweat ==
    /\ UpdateDone /\ ~IsE /\ eyes.sweat_enabled /\ eyes.sweat_y > pre.sweat_y
    /\ SweatDrops(Drawn) # {}

\* an idle retarget that came due during the pacing wait: the gaze has moved
\* and the frame is not the one of the state the tick began in
C37_Witness ==
    /\ UpdateDone /\ op.idled /\ op.entered < pre.next_idle_time
    /\ Fields(eyes)[1].tg # Fields(pre)[1].tg
    /\ Fields(eyes)[1].v # Fields(pre)[1].v
    /\ Drawn # FrameOf(pre)

\* an automatic blink that came due during the pacing wait
C37_Witness_blink ==
    /\ UpdateDone /\ op.fired /\ op.entered < pre.next_blink_time
    /\ LeftOpen(pre) < Scale /\ LeftOpen(eyes) > LeftOpen(pre)

---------------------------------------------------------------------------
(* Curiosity mode switched off *)

\* the height of an eye as update() draws it, before the lids
HeightOf(s, side) ==
    IF IsE THEN (IF side = "left" THEN s.left_eye.height ELSE s.right_eye.height)
    ELSE (IF side = "left" THEN s.state.left_height ELSE s.state.right_height)

\* both eyes are of their default heights, to the last digit of the tween
AtDefaultHeights(s) ==
    \A side \in {"left", "right"} :
        /\ Abs(HeightOf(s, side) - DefaultHeight(s, side)) <= 1
        /\ CuriousHeight(s, side) = DefaultHeight(s, side)

\* RestoreTicks or more updates after set_curiosity(False), the latest call
RestoredTick ==
    /\ UpdateDone /\ op.call = "set_curiosity" /\ ~Curious(eyes)
    /\ op.streak >= RestoreTicks

\* C38: after set_curiosity(False) is called in any state (including while
\* an outer eye is enlarged) and update() is then called repeatedly, both
\* eyes' heights return to their default heights and stay there.
C38_DefaultsRestored == RestoredTick => AtDefaultHeights(eyes)

\* the heights do come back when curiosity mode is switched off with no eye
\* enlarged
C38_RestoredIfNotEnlarged ==
    (RestoredTick /\ AtDefaultHeights(anchor)) => AtDefaultHeights(eyes)

\* curiosity mode was switched off while the left eye was enlarged
C38_Witness_enlarged ==
    /\ RestoredTick
    /\ CuriousHeight(anchor, "left") > DefaultHeight(anchor, "left")

---------------------------------------------------------------------------
(* The one reaction slot of roboeyes_2.py *)

StartCalls == {"blink", "wink_left", "wink_right", "anim_confused", "anim_laugh"}

KindOf(call) ==
    CASE call = "anim_confused" -> "confused"
      [] call = "anim_laugh" -> "laugh"
      [] OTHER -> "blink"

\* a reaction was started while another was running: it has the slot, and
\* no field was written by a last step of the one it replaced
Replaced ==
    (op.name \in StartCalls /\ pre.animating) =>
        /\ eyes.animating
        /\ eyes.animation_func.kind = KindOf(op.name)
        /\ eyes.animation_start_time = op.t
        /\ eyes.state = pre.state

\* gaze and lids: every field but those of the one running animation is
\* blended from its previous value, and so is nearer its target than before
OthersBlended ==
    UpdateDone =>
        \A i \in 1..4 :
            (Blended(i) /\ ~(op.fired /\ i \in {3, 4})) =>
                /\ Fields(eyes)[i].v =
                       R2_lerp(Fields(pre)[i].v, Fields(eyes)[i].tg,
                               SpeedOf(Fields(eyes)[i].class))
                /\ BlendedToFixed(i) =>
                       (Dist(eyes, i) < Dist(pre, i) \/ Dist(eyes, i) = 0)

\* an update() after a reaction was started by the caller
AfterStart == op.name = "update" /\ op.call \in StartCalls

\* C39: in roboeyes_2.py at most one reaction animation is active at any
\* time, and starting a reaction while another is running replaces it
\* without running the replaced animation's completion step; the field the
\* replaced animation owned still converges to its tween target on later
\* ticks.
C39_OneSlot ==
    ~IsE =>
        /\ Replaced
        /\ OthersBlended
        /\ AfterStart => ~op.raised

\* the same for reactions of a duration above 0
C39_OneSlotPositive ==
    (~IsE /\ anchor.animation_duration > 0) =>
        /\ Replaced
        /\ OthersBlended
        /\ AfterStart => ~op.raised

\* a confused shake has replaced a blink with the lids half closed, and the
\* lids are on their way to their targets
C39_Witness_replaced ==
    /\ ~IsE /\ UpdateDone /\ op.call = "anim_confused"
    /\ AnimRuns(eyes, "confused")
    /\ LeftOpen(pre) < LeftTarget(pre) /\ LeftOpen(eyes) > LeftOpen(pre)

\* a shake of duration 0 has replaced a blink: update() raises and the lids
\* stay where the blink left them
C39_Witness_stuck ==
    /\ ~IsE /\ op.name = "update" /\ op.raised /\ op.call = "anim_confused"
    /\ op.streak >= 4
    /\ LeftOpen(eyes) < LeftTarget(eyes)

---------------------------------------------------------------------------
(* The sink fallback *)

\* the sinks that have a show()
ShowSinks == {"st7789", "luma", "mock2", "display", "mock"}

\* the function returned a sink, a mock where every driver it tried failed
FellBack(mock) ==
    /\ ~sink.raised
    /\ sink.class \in ShowSinks
    /\ (\A i \in DOMAIN sink.outcomes : sink.outcomes[i] # "ok") => sink.class = mock

\* create_eyes(display_type="auto") returns a pair for every outcome of the
\* drivers' construction
CreateEyesFallsBack ==
    (sink.made_by = "create_eyes" /\ sink.display_type = "auto") =>
        /\ FellBack("mock2")
        /\ sink.outcomes[1] = "ok" <=> sink.class = "st7789"

\* C40: create_eyes(display_type="auto") returns an (engine, display) pair
\* for every outcome of hardware-driver construction (import error or any
\* other initialization failure), falling back to MockDisplay when both
\* hardware drivers fail, and the returned display provides show(); the
\* demo's sink construction likewise continues with a mock sink whenever
\* hardware initialization fails for any reason.
C40_SinkFallback ==
    /\ CreateEyesFallsBack
    /\ sink.made_by = "run_demo" => FellBack("mock")

\* the demo does fall back when the driver library is missing
C40_DemoFallsBackOnImportError ==
    (sink.made_by = "run_demo" /\ sink.display_type = "waveshare"
        /\ sink.outcomes[1] # "Exception") => FellBack("mock")

\* both drivers of create_eyes failed, one for each reason, and the frame
\* was shown on the mock
C40_Witness_auto ==
    /\ sink.made_by = "create_eyes" /\ sink.display_type = "auto"
    /\ sink.outcomes = <<"ImportError", "Exception">>
    /\ sink.class = "mock2" /\ sink.name = "show"

\* the driver of the demo failed with an exception that is no ImportError
C40_Witness_demo ==
    /\ sink.made_by = "run_demo" /\ sink.outcomes = <<"Exception">>
    /\ sink.raised

====
